---- MODULE Spec2Model ----
(***************************************************************************)
(* Model of the TouristGen route optimisation engine:                      *)
(*   backend/app/services/hours_utils.py     opening-hours library         *)
(*   backend/app/services/toptw_solver.py    TOPTW evaluator and scheduler *)
(*   backend/app/services/aco_optimizer.py   ant colony constructor        *)
(*   backend/app/api/optimizer.py            generate_route orchestrator   *)
(*                                                                         *)
(* Times are minutes from midnight.  Real-valued scores (fitness, weights) *)
(* are carried as integers in thousandths; weight factors in tenths.       *)
(* Geography is one-dimensional: a place is its kilometre mark, the start  *)
(* location is at kilometre 0.                                             *)
(***************************************************************************)
EXTENDS Integers, Sequences, FiniteSets, TLC

VARIABLES
    pc,        \* position of the running operation
    req,       \* the request / constraints under which the run happens
    pois,      \* the POINode array handed to the solver (self.pois)
    route,     \* the route under evaluation (evaluator runs)
    fit,       \* result of calculate_fitness
    det,       \* result of get_route_details
    aco,       \* AntColonyOptimizer state during solve
    resp,      \* outcome of generate_route
    log,       \* collaborators generate_route has called, in order
    ga,        \* GeneticAlgorithm state during evolve
    rs,        \* RoutesService instances and their callers
    weights,   \* the process-wide optimization_weights.WEIGHTS
    lib,       \* one call of the hours library: arguments and results
    db,        \* the learned_weights table and the sessions saving to it
    chat       \* the extracted parameters of one chat session

vars == <<pc, req, pois, route, fit, det, aco, resp, log, ga, rs, weights, lib, db, chat>>

(***************************************************************************)
(* Bounds of the model.                                                    *)
(***************************************************************************)
MaxPasses == 6
MaxRouteLen == 3
NumAnts == 2
Iterations == 2

(***************************************************************************)
(* Generic helpers.                                                        *)
(***************************************************************************)
Max(a, b) == IF a >= b THEN a ELSE b
Min(a, b) == IF a <= b THEN a ELSE b
Abs(a) == IF a >= 0 THEN a ELSE 0 - a

Range(s) == {s[k] : k \in DOMAIN s}

NoDup(s) == \A a, b \in DOMAIN s : a # b => s[a] # s[b]

\* Duplicate-free sequences over S of length lo..hi.
SeqsOver(S, lo, hi) ==
    UNION {{s \in [1..n -> S] : NoDup(s)} : n \in lo..hi}

\* sub is obtained from full by deleting elements (order kept).
RECURSIVE IsSubseq(_, _)
IsSubseq(sub, full) ==
    IF sub = <<>> THEN TRUE
    ELSE IF full = <<>> THEN FALSE
    ELSE IF Head(sub) = Head(full) THEN IsSubseq(Tail(sub), Tail(full))
    ELSE IsSubseq(sub, Tail(full))

(***************************************************************************)
(* hours_utils.py                                                          *)
(* An opening_hours dict is a sequence of <<day, entry>> pairs in dict     *)
(* order.  An entry abstracts the string stored for a day:                 *)
(*   kind "null"   : None                                                  *)
(*   kind "h24"    : "Abierto 24 horas"                                    *)
(*   kind "closed" : "Cerrado"                                             *)
(*   kind "range"  : "HH:MM<sep>HH:MM", sep "hyphen" (ASCII -) or "endash" (U+2013)   *)
(***************************************************************************)
None == -1

Entry(kind, sep, o, c) == [kind |-> kind, sep |-> sep, open |-> o, close |-> c]
ENull == Entry("null", "", 0, 0)
E24 == Entry("h24", "", 0, 0)
EClosed == Entry("closed", "", 0, 0)
EHyphen(o, c) == Entry("range", "hyphen", o, c)
EDash(o, c) == Entry("range", "endash", o, c)

\* dict.get(day): the entry stored for day, None when the key is absent.
DictGet(hours, day) ==
    IF \E k \in DOMAIN hours : hours[k][1] = day
    THEN hours[CHOOSE k \in DOMAIN hours : hours[k][1] = day][2]
    ELSE ENull

parse_opening_hours(hours, day) ==
    IF hours = <<>> THEN <<0, 1440>>
    ELSE LET e == DictGet(hours, day) IN
         CASE e.kind = "null" -> <<0, 1440>>
           [] e.kind = "h24" -> <<0, 1440>>
           [] e.kind = "closed" -> <<None, None>>
           [] e.kind = "range" ->
                IF e.close < e.open THEN <<e.open, e.close + 1440>>
                ELSE <<e.open, e.close>>
           [] OTHER -> <<0, 1440>>

is_poi_available(hours, day, start_time_minutes, visit_duration) ==
    LET p == parse_opening_hours(hours, day) IN
    IF p[1] = None THEN FALSE
    ELSE start_time_minutes <= p[2] - visit_duration

\* An urgency that starts to fall only at one hour of slack.
UrgencyFromOneHour(hours, day, current_time_minutes, visit_duration) ==
    LET p == parse_opening_hours(hours, day) IN
    IF p[1] = None \/ p[2] >= 1440 THEN 150
    ELSE LET available_window == p[2] - current_time_minutes - visit_duration IN
         IF available_window <= 0 THEN 0
         ELSE IF available_window <= 60 THEN 300
         ELSE IF available_window >= 180 THEN 150
         ELSE Max(150, Min(300, 330 - available_window))

\* Result times 150 (1.0 = 150, 2.0 = 300); 2.0 - (w - 30)/150 = (330 - w)/150.
calculate_urgency_weight(hours, day, current_time_minutes, visit_duration) ==
    LET p == parse_opening_hours(hours, day) IN
    IF p[1] = None \/ p[2] >= 1440 THEN 150
    ELSE LET time_until_close == p[2] - current_time_minutes IN
         IF time_until_close <= visit_duration THEN 0
         ELSE LET available_window == time_until_close - visit_duration IN
              IF available_window <= 30 THEN 300
              ELSE IF available_window >= 180 THEN 150
              ELSE Max(150, Min(300, 330 - available_window))

\* One call of the library: the arguments, and the answers once pc is
\* "answered".
LibCall(hours, day, t, d) ==
    [hours |-> hours, day |-> day, t |-> t, d |-> d,
     visitable |-> FALSE, urgency |-> 0]

NoLib == LibCall(<<>>, "", 0, 0)

(***************************************************************************)
(* The POI catalogue (rows of models/poi.py) the runs draw from.           *)
(* rating and learned_popularity are in tenths, km is the kilometre mark.  *)
(***************************************************************************)
DbPoi(id, pop, vd, cat, pl, rating10, tags, hours, km) ==
    [id |-> id, popularity |-> pop, visit_duration |-> vd, category |-> cat,
     price_level |-> pl, rating10 |-> rating10, tags |-> tags,
     district |-> "Miraflores", learned10 |-> 10, opening_hours |-> hours,
     km |-> km]

Catalog ==
    <<DbPoi(101, 80, 60, "museum", 0, 40, {"museum"}, <<>>, 0),
      DbPoi(102, 60, 30, "restaurant", 1, 45, {},
            <<<<"Monday", EHyphen(560, 720)>>>>, 15),
      DbPoi(103, 90, 30, "park", 3, 50, {"outdoor"},
            <<<<"Monday", EDash(540, 630)>>>>, 0),
      DbPoi(104, 70, 30, "museum", 0, 30, {"indoor"},
            <<<<"Tuesday", EHyphen(660, 1200)>>, <<"Monday", EClosed>>>>, 15)>>

(***************************************************************************)
(* optimizer.py: price mapping, time strings, POINode conversion.          *)
(***************************************************************************)
convert_price_level_to_cost(price_level) ==
    CASE price_level = 0 -> 0
      [] price_level = 1 -> 25
      [] price_level = 2 -> 50
      [] price_level = 3 -> 80
      [] price_level = 4 -> 150
      [] OTHER -> 0

\* First dict entry containing an ASCII "-" gives the node's window,
\* whatever day it belongs to; otherwise the 09:00-18:00 default.
NodeWindow(hours) ==
    LET ks == {k \in DOMAIN hours :
                 hours[k][2].kind = "range" /\ hours[k][2].sep = "hyphen"} IN
    IF ks = {} THEN <<540, 1080>>
    ELSE LET k == CHOOSE x \in ks : \A y \in ks : x <= y IN
         <<hours[k][2].open, hours[k][2].close>>

ToPOINode(p) ==
    [id |-> p.id, popularity |-> p.popularity,
     opening_time |-> NodeWindow(p.opening_hours)[1],
     closing_time |-> NodeWindow(p.opening_hours)[2],
     visit_duration |-> p.visit_duration, category |-> p.category,
     price |-> convert_price_level_to_cost(p.price_level),
     rating10 |-> p.rating10, tags |-> p.tags, district |-> p.district,
     learned10 |-> p.learned10, opening_hours |-> p.opening_hours,
     km |-> p.km]

\* poi_nodes for a list of catalogue rows, indexed from 0 as in the code.
ToNodes(rows) == [k \in 0..(Len(rows) - 1) |-> ToPOINode(rows[k + 1])]

NumNodes(P) == Cardinality(DOMAIN P)

(***************************************************************************)
(* Travel times.  Speeds are km/h times 10.                                *)
(***************************************************************************)
Speed10(mode) ==
    CASE mode = "foot-walking" -> 45
      [] mode = "cycling-regular" -> 150
      [] mode = "driving-car" -> 250
      [] OTHER -> 250

\* (dist_km / speed) * 60
GeoMinutes(dist_km, mode) == (dist_km * 600) \div Speed10(mode)

\* _estimate_travel_time: haversine distance at the profile speed.
estimate_travel_time(P, a, b, mode) == GeoMinutes(Abs(P[a].km - P[b].km), mode)

\* Durations answered by an external routing provider: roads are slower
\* than the straight line.
RoadMinutes(dist_km, mode) ==
    IF mode = "foot-walking" THEN dist_km * 14 ELSE dist_km * 3

\* A matrix over the given kilometre marks (index 0 first).
MatrixOf(kms, mode, provider) ==
    [a \in 0..(Len(kms) - 1) |-> [b \in 0..(Len(kms) - 1) |->
        IF a = b THEN 0
        ELSE IF provider = "geodesic"
             THEN GeoMinutes(Abs(kms[a + 1] - kms[b + 1]), mode)
             ELSE RoadMinutes(Abs(kms[a + 1] - kms[b + 1]), mode)]]

NoMatrix == <<>>

(***************************************************************************)
(* optimization_weights.py: WEIGHTS, heuristic weights in hundredths,      *)
(* penalty coefficients in tenths.                                         *)
(***************************************************************************)
WEIGHTS ==
    [distance_weight |-> 35, popularity_weight |-> 30,
     urgency_weight |-> 20, rating_weight |-> 15,
     travel_time_penalty |-> 1, cost_penalty |-> 5,
     constraint_violation |-> 20]

MAX_WAIT_TIME == 30

(***************************************************************************)
(* toptw_solver.py: TOPTWSolver.                                           *)
(* A solver is a record: pois, constraints, time_matrix (NoMatrix when     *)
(* unset), start_to_poi_times (NoTimes when unset), and alpha, beta, gamma *)
(* copied by __init__ from the process-wide WEIGHTS (variable weights).    *)
(***************************************************************************)
NoTimes == <<>>

NoWeather == [present |-> FALSE, precipitation |-> 0, temperature |-> 20,
              wind_speed |-> 0]
Rain == [present |-> TRUE, precipitation |-> 5, temperature |-> 20,
         wind_speed |-> 0]

TOPTWSolver(P, C) ==
    [pois |-> P, constraints |-> C, time_matrix |-> NoMatrix,
     start_to_poi_times |-> NoTimes,
     alpha |-> weights.travel_time_penalty,
     beta |-> weights.cost_penalty,
     gamma |-> weights.constraint_violation]

\* Weight in thousandths (product of three factors in tenths).
calculate_weather_weight(sv, poi) ==
    LET w == sv.constraints.weather_conditions
        rain == IF w.precipitation > 2
                THEN IF poi.tags \cap {"outdoor", "park", "beach"} # {} THEN 5
                     ELSE IF poi.tags \cap {"museum", "indoor", "cultural"} # {}
                          THEN 13 ELSE 10
                ELSE 10
        temp == IF w.temperature > 30
                THEN IF "outdoor" \in poi.tags THEN 7
                     ELSE IF "indoor" \in poi.tags THEN 12 ELSE 10
                ELSE IF w.temperature < 15
                     THEN IF "beach" \in poi.tags THEN 6 ELSE 10
                     ELSE 10
        wind == IF w.wind_speed > 30
                   /\ ("beach" \in poi.tags \/ "outdoor" \in poi.tags)
                THEN 8 ELSE 10
    IN  IF ~w.present THEN 1000 ELSE rain * temp * wind

\* Weight in thousandths.
calculate_user_preference_weight(sv, poi) ==
    LET C == sv.constraints
        m == IF poi.category \in C.mandatory_categories THEN 15 ELSE 10
        a == IF poi.category \in C.avoid_categories THEN 2 ELSE 10
        d == IF C.preferred_districts # {}
             THEN IF poi.district \in C.preferred_districts THEN 13 ELSE 8
             ELSE 10
    IN  m * a * d

\* Multiplier in tenths.
get_pace_multiplier(sv) ==
    CASE sv.constraints.user_pace = "slow" -> 13
      [] sv.constraints.user_pace = "medium" -> 10
      [] sv.constraints.user_pace = "fast" -> 8
      [] OTHER -> 10

\* Leg between two route positions as calculate_fitness reads it.
FitnessTravel(sv, prev, idx) ==
    IF sv.time_matrix # NoMatrix /\ prev < NumNodes(sv.time_matrix)
    THEN sv.time_matrix[prev][idx]
    ELSE estimate_travel_time(sv.pois, prev, idx, sv.constraints.transport_mode)

\* Leg as validate_route, get_route_details and the ACO read it.
MatrixTravel(sv, prev, idx) ==
    IF sv.time_matrix # NoMatrix
    THEN sv.time_matrix[prev][idx]
    ELSE estimate_travel_time(sv.pois, prev, idx, sv.constraints.transport_mode)

\* popularity * weather * user * learned * urgency * rating/5, thousandths.
PoiScore(sv, poi, urgency150) ==
    LET s0 == poi.popularity * calculate_weather_weight(sv, poi)
        s1 == (s0 * calculate_user_preference_weight(sv, poi)) \div 1000
        s2 == (s1 * poi.learned10) \div 10
        s3 == (s2 * urgency150) \div 150
    IN  (s3 * poi.rating10) \div 50

FitnessStart(sv) ==
    [total_score |-> 0, total_time |-> 0, total_cost |-> 0,
     current_time |-> sv.constraints.start_time, penalties |-> 0,
     visited_categories |-> {}, visits |-> <<>>]

\* One pass of the for-loop of calculate_fitness (position i of route r).
\* visits records the POIs that reach the score line.
FitnessLoop(sv, r, i, s) ==
    LET poi_idx == r[i]
        poi == sv.pois[poi_idx]
        C == sv.constraints
        travel_time == IF i > 1 THEN FitnessTravel(sv, r[i - 1], poi_idx) ELSE 0
        s1 == [s EXCEPT !.visited_categories = @ \cup {poi.category},
                        !.total_time = @ + travel_time,
                        !.current_time = @ + travel_time]
        wait_time == poi.opening_time - s1.current_time
        s2 == IF s1.current_time < poi.opening_time
              THEN [s1 EXCEPT !.penalties = @ + wait_time * 2000,
                              !.current_time = poi.opening_time,
                              !.total_time = @ + wait_time]
              ELSE s1
        s3 == [s2 EXCEPT !.total_time = @ + poi.visit_duration,
                         !.current_time = @ + poi.visit_duration,
                         !.total_cost = @ + poi.price]
        urgency_weight == calculate_urgency_weight(poi.opening_hours,
                              C.day_of_week, s3.current_time, poi.visit_duration)
    IN  IF poi.category \in C.avoid_categories
        THEN [s1 EXCEPT !.penalties = @ + 50000]
        ELSE IF s1.current_time < poi.opening_time /\ wait_time > MAX_WAIT_TIME
        THEN [s1 EXCEPT !.penalties = @ + 500000]
        ELSE IF s2.current_time >= poi.closing_time
        THEN [s2 EXCEPT !.penalties = @ + 200000]
        ELSE IF s2.current_time + poi.visit_duration > poi.closing_time
        THEN [s2 EXCEPT !.penalties = @ + 150000]
        ELSE IF urgency_weight = 0
        THEN [s3 EXCEPT !.penalties = @ + 300000]
        ELSE [s3 EXCEPT !.total_score = @ + PoiScore(sv, poi, urgency_weight),
                        !.visits = Append(@, poi_idx)]

RECURSIVE FitnessWalk(_, _, _, _)
FitnessWalk(sv, r, i, s) ==
    IF i > Len(r) THEN s
    ELSE FitnessWalk(sv, r, i + 1, FitnessLoop(sv, r, i, s))

\* The return without the floor.
FitnessNoFloor(fitness) == fitness

\* max(0.0, fitness)
FitnessFloor(fitness) == Max(0, fitness)

\* calculate_fitness: the value in thousandths, with what the walk did.
calculate_fitness(sv, r) ==
    IF r = <<>> THEN
        [fitness |-> 0, visits |-> <<>>, total_time |-> 0, total_cost |-> 0,
         over_duration |-> FALSE, over_pace |-> FALSE, penalties |-> 0,
         total_score |-> 0]
    ELSE
    LET C == sv.constraints
        w == FitnessWalk(sv, r, 1, FitnessStart(sv))
        missing == Cardinality(C.mandatory_categories \ w.visited_categories)
        over_duration == w.total_time > C.max_duration
        over_budget == w.total_cost > C.max_budget
        adjusted10 == w.total_time * get_pace_multiplier(sv)
        over_pace == adjusted10 > C.max_duration * 10
        penalties == w.penalties + missing * 100000
            + (IF over_duration
               THEN (w.total_time - C.max_duration) * sv.gamma * 100 ELSE 0)
            + (IF over_budget
               THEN (w.total_cost - C.max_budget) * sv.beta * 1000 ELSE 0)
            + (IF over_pace
               THEN (adjusted10 - C.max_duration * 10) * sv.gamma * 10 ELSE 0)
        fitness == w.total_score - sv.alpha * w.total_time * 100
                   - sv.beta * w.total_cost * 100 - penalties
    IN  [fitness |-> FitnessFloor(fitness), visits |-> w.visits,
         total_time |-> w.total_time, total_cost |-> w.total_cost,
         over_duration |-> over_duration, over_pace |-> over_pace,
         penalties |-> penalties, total_score |-> w.total_score]

\* _minutes_to_time_string: "HH:MM" as the pair <<HH, MM>>.
minutes_to_time_string(minutes) == <<minutes \div 60, minutes % 60>>

\* Reading of an "HH:MM" string back as minutes (H*60 + M).
TimeStringMinutes(ts) == ts[1] * 60 + ts[2]

\* int(x / y) for y > 0: truncation toward zero.
TruncDiv(x, y) == IF x >= 0 THEN x \div y ELSE 0 - ((0 - x) \div y)

RECURSIVE SumLegs(_, _, _)
SumLegs(sv, r, i) ==
    IF i > Len(r) THEN 0
    ELSE MatrixTravel(sv, r[i - 1], r[i]) + SumLegs(sv, r, i + 1)

RECURSIVE SumPopularity(_, _, _)
SumPopularity(sv, r, i) ==
    IF i > Len(r) THEN 0
    ELSE sv.pois[r[i]].popularity + SumPopularity(sv, r, i + 1)

\* Geodesic estimate of the leg from the start location (kilometre 0).
StartGeoMinutes(sv, idx) ==
    GeoMinutes(Abs(sv.pois[idx].km), sv.constraints.transport_mode)

\* visit_durations[poi_idx]: max_duration minus travel, shared by popularity.
SmartVisitDuration(sv, r, start_location, poi_idx) ==
    LET total_travel_time ==
            (IF start_location THEN StartGeoMinutes(sv, r[1]) ELSE 0)
            + SumLegs(sv, r, 2)
        visit_time_budget == sv.constraints.max_duration - total_travel_time
        total_importance == SumPopularity(sv, r, 1)
        poi == sv.pois[poi_idx]
    IN  IF total_importance > 0
        THEN Max(30, Min(180,
                 TruncDiv(poi.popularity * visit_time_budget, total_importance)))
        ELSE poi.visit_duration

\* The wait test with the bound of an hour.
DetailsExcessiveWaitHour(wait_time) == wait_time > 60

\* The wait test of get_route_details that skips a POI (continue).
DetailsExcessiveWait(wait_time) == wait_time > MAX_WAIT_TIME

\* An entry put at the front of the timeline.
TimelinePrepend(timeline, item) == <<item>> \o timeline

\* timeline.append(item)
TimelineAppend(timeline, item) == Append(timeline, item)

\* One pass of the timeline loop of get_route_details.  skipped records
\* the POIs left out by the wait test.
DetailsLoop(sv, r, i, d, start_location) ==
    LET poi_idx == r[i]
        poi == sv.pois[poi_idx]
        travel_time ==
            IF i = 1 /\ start_location
            THEN IF sv.start_to_poi_times # NoTimes
                    /\ poi_idx < NumNodes(sv.start_to_poi_times)
                 THEN sv.start_to_poi_times[poi_idx]
                 ELSE StartGeoMinutes(sv, poi_idx)
            ELSE IF i > 1 THEN MatrixTravel(sv, r[i - 1], poi_idx)
            ELSE 0
        arrival_time == d.current_time + travel_time
        wait_time == IF arrival_time < poi.opening_time
                     THEN poi.opening_time - arrival_time ELSE 0
        current_time == IF arrival_time < poi.opening_time
                        THEN poi.opening_time ELSE arrival_time
        smart_visit_duration == SmartVisitDuration(sv, r, start_location, poi_idx)
        departure_time == current_time + smart_visit_duration
        item == [poi_id |-> poi.id,
                 category |-> poi.category,
                 arrival_time |-> minutes_to_time_string(arrival_time),
                 departure_time |-> minutes_to_time_string(departure_time),
                 visit_duration |-> smart_visit_duration,
                 travel_time |-> travel_time,
                 wait_time |-> wait_time,
                 wait_warning |-> wait_time > 15,
                 price |-> poi.price,
                 is_free |-> poi.price = 0]
    IN  IF DetailsExcessiveWait(wait_time)
        THEN [d EXCEPT !.current_time = arrival_time,
                       !.skipped = Append(@, poi_idx)]
        ELSE [timeline |-> TimelineAppend(d.timeline, item),
              current_time |-> departure_time,
              total_cost |-> d.total_cost + poi.price,
              skipped |-> d.skipped]

RECURSIVE DetailsWalk(_, _, _, _, _)
DetailsWalk(sv, r, i, d, start_location) ==
    IF i > Len(r) THEN d
    ELSE DetailsWalk(sv, r, i + 1, DetailsLoop(sv, r, i, d, start_location),
                     start_location)

\* get_route_details; empty = TRUE stands for the {} answer.
get_route_details(sv, r, start_location) ==
    IF r = <<>> THEN
        [empty |-> TRUE, timeline |-> <<>>, total_duration |-> 0,
         total_cost |-> 0, num_pois |-> 0,
         start_time |-> <<0, 0>>, end_time |-> <<0, 0>>, skipped |-> <<>>]
    ELSE
    LET d == DetailsWalk(sv, r, 1,
                 [timeline |-> <<>>,
                  current_time |-> sv.constraints.start_time,
                  total_cost |-> 0, skipped |-> <<>>], start_location)
    IN  [empty |-> FALSE, timeline |-> d.timeline,
         total_duration |-> d.current_time - sv.constraints.start_time,
         total_cost |-> d.total_cost, num_pois |-> Len(r),
         start_time |-> minutes_to_time_string(sv.constraints.start_time),
         end_time |-> minutes_to_time_string(d.current_time),
         skipped |-> d.skipped]

\* poi ids of a sequence of indices / of a timeline.
RouteIds(P, r) == [k \in DOMAIN r |-> P[r[k]].id]
TimelineIds(timeline) == [k \in DOMAIN timeline |-> timeline[k].poi_id]

(***************************************************************************)
(* aco_optimizer.py: AntColonyOptimizer.  An optimizer is a record holding *)
(* its solver, the parameters and the state of solve.  Pheromone values    *)
(* are in thousandths, heuristic values in 1/900000.                       *)
(***************************************************************************)
ACO_MAX_WAIT_TIME == 30

\* The window the ACO reads for a node: the day's parsed hours when the
\* node has opening_hours and the day is not closed, else the node's own.
AcoWindow(ac, poi) ==
    LET parsed == parse_opening_hours(poi.opening_hours,
                                      ac.solver.constraints.day_of_week) IN
    IF poi.opening_hours # <<>> /\ parsed[1] # None
    THEN parsed
    ELSE <<poi.opening_time, poi.closing_time>>

\* The heuristic under the weights w.
HeuristicWith(w, ac, current_idx, next_idx, current_time) ==
    LET next_poi == ac.solver.pois[next_idx]
        travel_time == MatrixTravel(ac.solver, current_idx, next_idx)
        dist_score60 == Max(0, 60 - travel_time)
        pop_score100 == Min(100, next_poi.popularity)
        arrival_time == current_time + travel_time
        opening_time == AcoWindow(ac, next_poi)[1]
        closing_time == AcoWindow(ac, next_poi)[2]
        wait_time == IF arrival_time < opening_time
                     THEN opening_time - arrival_time ELSE 0
        effective_arrival == Max(arrival_time, opening_time)
        time_left == closing_time - effective_arrival
        urgency_score300 == Max(0, Min(300, 300 - time_left))
        rating_score50 == IF next_poi.rating10 # 0 THEN next_poi.rating10 ELSE 25
        wait_penalty30 == IF wait_time > 0 THEN ACO_MAX_WAIT_TIME - wait_time
                          ELSE ACO_MAX_WAIT_TIME
        total == dist_score60 * 5 * w.distance_weight
                 + pop_score100 * 3 * w.popularity_weight
                 + urgency_score300 * w.urgency_weight
                 + rating_score50 * 6 * w.rating_weight
    IN  IF arrival_time >= closing_time THEN 0
        ELSE IF wait_time > ACO_MAX_WAIT_TIME THEN 0
        ELSE total * wait_penalty30

\* _calculate_heuristic imports WEIGHTS at every call: it reads the
\* process-wide weights as they are at that moment.
calculate_heuristic(ac, current_idx, next_idx, current_time) ==
    HeuristicWith(weights, ac, current_idx, next_idx, current_time)

\* The nodes _select_next_node may return: unvisited, heuristic > 0 (the
\* pheromone is positive, so each has positive probability).
SelectCandidates(ac, ant_route, current_time) ==
    {next_idx \in DOMAIN ac.solver.pois :
        /\ next_idx \notin Range(ant_route)
        /\ calculate_heuristic(ac, ant_route[Len(ant_route)], next_idx,
                               current_time) > 0}

\* Seed score of a POI: urgency (x150) and 1 / (1 + km * 0.2) = 5 / (5 + km).
SeedUrgency(ac, idx) ==
    LET poi == ac.solver.pois[idx] IN
    calculate_urgency_weight(poi.opening_hours,
        ac.solver.constraints.day_of_week,
        ac.solver.constraints.start_time, poi.visit_duration)

SeedDenominator(ac, idx) ==
    IF ac.start_location /\ SeedUrgency(ac, idx) > 0
    THEN 5 + Abs(ac.solver.pois[idx].km) ELSE 5

\* combined_score of a above that of b.
SeedAbove(ac, a, b) ==
    SeedUrgency(ac, a) * SeedDenominator(ac, b)
        > SeedUrgency(ac, b) * SeedDenominator(ac, a)

\* The first POIs _construct_solution may start from.  With a POI of
\* positive urgency: the first of the stable descending sort.  Otherwise
\* the fallback: nodes opening within an hour (all nodes if none), the
\* closest to the start location, or any of them without a location.
SeedChoices(ac) ==
    LET P == ac.solver.pois
        C == ac.solver.constraints
        urgent == {k \in DOMAIN P : SeedUrgency(ac, k) > 0}
        early == {k \in DOMAIN P : P[k].opening_time <= C.start_time + 60}
        start_candidates == IF early = {} THEN DOMAIN P ELSE early
    IN  IF urgent # {}
        THEN {k \in urgent : \A j \in urgent \ {k} :
                 SeedAbove(ac, k, j) \/ (~SeedAbove(ac, j, k) /\ k < j)}
        ELSE IF ac.start_location
        THEN {k \in start_candidates : \A j \in start_candidates \ {k} :
                 Abs(P[k].km) < Abs(P[j].km)
                 \/ (Abs(P[k].km) = Abs(P[j].km) /\ k < j)}
        ELSE start_candidates

\* A wait test of the while-loop with a bound of a quarter of an hour.
ConstructWaitQuarter(wait_time) == wait_time > 15

\* The wait test of the while-loop of _construct_solution (line 289).
ConstructExcessiveWait(wait_time) == wait_time > ACO_MAX_WAIT_TIME

\* The comparison that replaces the global best in solve.
ReplaceAlways(fitness, best_fitness) == TRUE

\* if fitness > self.best_fitness
ImprovesBest(fitness, best_fitness) == fitness > best_fitness

\* _update_pheromones: evaporation, then symmetric deposit of q * fitness
\* (q = 100) on consecutive pairs of every solution with fitness > 0.
RECURSIVE Deposit(_, _)
Deposit(tau, solutions) ==
    IF solutions = <<>> THEN tau
    ELSE LET r == Head(solutions).route
             f == Head(solutions).fitness
             pairs == {<<r[k], r[k + 1]>> : k \in 1..(Len(r) - 1)}
             hits(u, v) == Cardinality({k \in 1..(Len(r) - 1) :
                              (r[k] = u /\ r[k + 1] = v)
                              \/ (r[k] = v /\ r[k + 1] = u)})
             t2 == IF f <= 0 THEN tau
                   ELSE [u \in DOMAIN tau |-> [v \in DOMAIN tau |->
                            tau[u][v] + hits(u, v) * 100 * f]]
         IN  Deposit(t2, Tail(solutions))

\* A pheromone update that deposits on the pair (u, v) only, not on (v, u).
RECURSIVE DepositOneWay(_, _)
DepositOneWay(tau, solutions) ==
    IF solutions = <<>> THEN tau
    ELSE LET r == Head(solutions).route
             f == Head(solutions).fitness
             hits(u, v) == Cardinality({k \in 1..(Len(r) - 1) :
                              r[k] = u /\ r[k + 1] = v})
             t2 == IF f <= 0 THEN tau
                   ELSE [u \in DOMAIN tau |-> [v \in DOMAIN tau |->
                            tau[u][v] + hits(u, v) * 100 * f]]
         IN  DepositOneWay(t2, Tail(solutions))

UpdateOneWay(tau, solutions) ==
    DepositOneWay([u \in DOMAIN tau |-> [v \in DOMAIN tau |->
                      (tau[u][v] * 9) \div 10]], solutions)

update_pheromones(tau, solutions) ==
    Deposit([u \in DOMAIN tau |-> [v \in DOMAIN tau |->
                (tau[u][v] * 9) \div 10]], solutions)

\* AntColonyOptimizer(...) followed by set_distance_matrix and
\* set_start_to_poi_times as generate_route calls them.
AntColonyOptimizer(sv, start_location) ==
    [solver |-> sv, start_location |-> start_location,
     pheromone_matrix |-> [u \in DOMAIN sv.pois |-> [v \in DOMAIN sv.pois |-> 100]],
     best_solution |-> <<>>, best_fitness |-> 0, fitness_history |-> <<>>,
     iteration |-> 0, ant |-> 0, solutions |-> <<>>,
     route |-> <<>>, current_time |-> 0, seen |-> <<>>,
     passes |-> 0, continues |-> 0]

(***************************************************************************)
(* Requests.  A request carries the TOPTWConstraints fields and, for the   *)
(* orchestrator, start_location (TRUE = given, at kilometre 0),            *)
(* selected_poi_ids and the routing provider that answers.                 *)
(***************************************************************************)
Request(st, md, mb, pace, avoid, mand, weather, mode, loc, sel, prov) ==
    [start_time |-> st, max_duration |-> md, max_budget |-> mb,
     user_pace |-> pace, avoid_categories |-> avoid,
     mandatory_categories |-> mand, preferred_districts |-> {},
     weather_conditions |-> weather, transport_mode |-> mode,
     day_of_week |-> "Monday", start_location |-> loc,
     selected_poi_ids |-> sel, provider |-> prov]

NoRequest == Request(0, 0, 0, "medium", {}, {}, NoWeather, "driving-car",
                     FALSE, <<>>, "none")

NoFit == calculate_fitness(TOPTWSolver(<<>>, NoRequest), <<>>)
NoDet == get_route_details(TOPTWSolver(<<>>, NoRequest), <<>>, FALSE)

set_distance_matrix(sv, time_matrix) == [sv EXCEPT !.time_matrix = time_matrix]
set_start_to_poi_times(sv, times) == [sv EXCEPT !.start_to_poi_times = times]

\* Kilometre marks of the nodes, in index order.
NodeKms(P) == [k \in 1..NumNodes(P) |-> P[k - 1].km]

\* The POI-to-POI matrix and the start row a provider answers for P.
PoiMatrix(P, C) == MatrixOf(NodeKms(P), C.transport_mode, C.provider)
StartRow(P, C) ==
    [k \in DOMAIN P |->
        MatrixOf(<<0>> \o NodeKms(P), C.transport_mode, C.provider)[0][k + 1]]

NoAco == AntColonyOptimizer(TOPTWSolver(<<>>, NoRequest), FALSE)
NoResp == [status |-> 0, detail |-> "", route |-> <<>>, timeline |-> <<>>,
           total_duration |-> 0, total_cost |-> 0, fitness_score |-> 0,
           num_pois |-> 0, end_time |-> <<0, 0>>]

(***************************************************************************)
(* ga_optimizer.py: GeneticAlgorithm.  evolve runs with a population of    *)
(* PopulationSize routes for Generations generations; the position in      *)
(* evolve is pc ("ga.init", "ga.evaluate", "ga.select", "ga.crossover",    *)
(* "ga.mutate", "ga.done"; "ga.hung" when a call never returns).           *)
(***************************************************************************)
PopulationSize == 2
Generations == 1

tournament_size == 5

GeneticAlgorithm(sv) ==
    [solver |-> sv, population |-> <<>>, new_population |-> <<>>,
     best_solution |-> <<>>, best_fitness |-> 0, generation |-> 0,
     fitnesses |-> <<>>, parent1 |-> <<>>, parent2 |-> <<>>, child1 |-> <<>>, child2 |-> <<>>]

NoGa == GeneticAlgorithm(TOPTWSolver(<<>>, NoRequest))

(***************************************************************************)
(* routes_service.py: RoutesService and the callers of                     *)
(* get_distance_matrix.  Service 1 is the module-level instance of         *)
(* api/routes.py, used by the threads of calculate_matrix; generate_route  *)
(* constructs an instance of its own per request.  A matrix object is      *)
(* [id, key, provider]: id is the object's identity, (key, provider)       *)
(* determine its values.                                                   *)
(***************************************************************************)
\* The request threads of the process.
Callers == {"t1", "t2"}
MaxCalls == 2

\* The values of (tuple(coordinates), profile).
CacheKeys == {"k1", "k2"}

NoMatrixObject == [id |-> 0, key |-> "", provider |-> ""]

\* RoutesService.__init__: the instance with its empty _matrix_cache.
RoutesService(api_key_set) ==
    [use_api |-> api_key_set, matrix_cache |-> <<>>]

\* One thread of control: where it stands in get_distance_matrix, what the
\* call has done so far (invoked: the providers called with their
\* outcome), and what held when the call began (cold: no cache entry for
\* the key; seen: the number of calls completed before).
IdleCaller ==
    [pc |-> "idle", kind |-> "", svc |-> 0, key |-> "",
     matrix |-> NoMatrixObject, invoked |-> <<>>, stored |-> NoMatrixObject,
     cold |-> FALSE, seen |-> 0]

NoRs ==
    [services |-> <<>>, callers |-> [c \in Callers |-> IdleCaller],
     done |-> <<>>, next_id |-> 1]

\* get_distance_matrix, lines 56-72: the first provider after a miss.
AfterMiss(sv) == IF sv.use_api THEN "ors" ELSE "osrm"

\* A fallback chain that leaves OSRM out.
AfterFailureSkipOsrm(provider) == "geodesic"

\* get_distance_matrix, lines 70-85: the provider tried after a failure.
AfterFailure(provider) == IF provider = "ors" THEN "osrm" ELSE "geodesic"

\* self._matrix_cache[cache_key] = matrix
CachePut(cache, key, matrix) ==
    [k \in DOMAIN cache \cup {key} |-> IF k = key THEN matrix ELSE cache[k]]

\* The values of two matrices are the same.
SameValues(m1, m2) == m1.key = m2.key /\ m1.provider = m2.provider

\* random.sample(range(num_pois), k): a duplicate-free draw of k indices.
\* The draws explored are the runs i, i+1, ... (mod num_pois).
random_sample(num_pois, k) ==
    {s \in SeqsOver(0..(num_pois - 1), k, k) :
        \A i \in 1..(k - 1) : s[i + 1] = (s[i] + 1) % num_pois}

\* The routes initialize_population may draw for one individual.
RandomRoutes(num_pois) ==
    LET max_route_length == Min(12, num_pois)
        min_route_length == Min(3, num_pois)
    IN  UNION {random_sample(num_pois, Min(route_length, num_pois)) :
                  route_length \in min_route_length..max_route_length}

\* int(elite_ratio * population_size) with elite_ratio = 0.1, at least 1.
elite_count == Max(1, PopulationSize \div 10)

GAFitness(g, r) == calculate_fitness(g.solver, r).fitness

\* fitnesses = [calculate_fitness(route) for route in population]
Fitnesses(g) == [k \in DOMAIN g.population |-> GAFitness(g, g.population[k])]

\* np.argmax(fitnesses): the first index of the maximum.
ArgMax(fitnesses) ==
    CHOOSE i \in DOMAIN fitnesses :
        /\ \A j \in DOMAIN fitnesses : fitnesses[j] <= fitnesses[i]
        /\ \A j \in 1..(i - 1) : fitnesses[j] < fitnesses[i]

\* tournament_selection: the fittest of a random sample of
\* min(tournament_size, len(population)) individuals.
TournamentWinners(population, fitnesses) ==
    LET n == Len(population)
        k == Min(tournament_size, n)
    IN  {population[i] : i \in
            {i \in 1..n : \E T \in SUBSET (1..n) :
                /\ Cardinality(T) = k
                /\ i \in T
                /\ \A j \in T : fitnesses[j] <= fitnesses[i]}}

\* np.argsort(fitnesses)[-elite_count:], in ascending order of fitness.
EliteSeqs(fitnesses) ==
    {e \in SeqsOver(DOMAIN fitnesses, elite_count, elite_count) :
        /\ \A i, j \in DOMAIN e : i < j => fitnesses[e[i]] <= fitnesses[e[j]]
        /\ \A o \in DOMAIN fitnesses \ Range(e) :
              fitnesses[o] <= fitnesses[e[1]]}

\* _create_ox_child(parent1, parent2, start, end) with 0-based start < end:
\* the segment parent1[start:end] is kept, the genes of parent2 not in it
\* fill the free positions from end on, wrapping.  With more such genes
\* than free positions the fill loop never ends (hang); a position left
\* without gene keeps -1.
create_ox_child(parent1, parent2, start, end) ==
    LET size == Len(parent1)
        segment == {parent1[k] : k \in (start + 1)..end}
        parent2_filtered == SelectSeq(parent2, LAMBDA gene : gene \notin segment)
        free == size - (end - start)
        slot(pos) == ((pos - 1 - end + size) % size) + 1
    IN  [hang |-> Len(parent2_filtered) > free,
         child |-> [pos \in 1..size |->
                      IF pos \in (start + 1)..end THEN parent1[pos]
                      ELSE IF slot(pos) <= Len(parent2_filtered)
                           THEN parent2_filtered[slot(pos)]
                           ELSE 0 - 1]]

\* ordered_crossover(parent1, parent2): the possible outcomes.
ordered_crossover(parent1, parent2) ==
    IF Len(parent1) < 2 \/ Len(parent2) < 2
    THEN {[hang |-> FALSE, child1 |-> parent1, child2 |-> parent2]}
    ELSE LET size == Min(Len(parent1), Len(parent2))
             p1 == SubSeq(parent1, 1, size)
             p2 == SubSeq(parent2, 1, size)
         IN  {[hang |-> create_ox_child(p1, p2, c[1], c[2]).hang
                        \/ create_ox_child(p2, p1, c[1], c[2]).hang,
               child1 |-> create_ox_child(p1, p2, c[1], c[2]).child,
               child2 |-> create_ox_child(p2, p1, c[1], c[2]).child] :
                 c \in {c \in (0..(size - 1)) \X (0..(size - 1)) : c[1] < c[2]}}

\* list.insert(pos, x) with 0-based pos in 0..len.
ListInsert(l, pos, x) == SubSeq(l, 1, pos) \o <<x>> \o SubSeq(l, pos + 1, Len(l))

\* list.pop(i) with 0-based i: the list without that position.
ListPop(l, i) == SubSeq(l, 1, i) \o SubSeq(l, i + 2, Len(l))

\* A mutation that appends an index whether or not the route has it.
MutateAddAny(route_, num_pois) ==
    {route_} \cup {Append(route_, x) : x \in 0..(num_pois - 1)}

\* mutate(route): every route it may return.
mutate(route_, num_pois) ==
    LET n == Len(route_)
        available == (0..(num_pois - 1)) \ Range(route_)
        pairs == {c \in (0..(n - 1)) \X (0..(n - 1)) : c[1] # c[2]}
        swap == {[k \in 1..n |->
                    IF k = c[1] + 1 THEN route_[c[2] + 1]
                    ELSE IF k = c[2] + 1 THEN route_[c[1] + 1]
                    ELSE route_[k]] : c \in pairs}
        insert == {ListInsert(ListPop(route_, c[1]), c[2], route_[c[1] + 1]) :
                      c \in pairs}
        shuffle == IF n >= 4
                   THEN UNION {{SubSeq(route_, 1, c[1]) \o chunk
                                   \o SubSeq(route_, c[2] + 1, n) :
                                 chunk \in SeqsOver(
                                     {route_[k] : k \in (c[1] + 1)..c[2]},
                                     c[2] - c[1], c[2] - c[1])} :
                               c \in {c \in pairs : c[1] < c[2]}}
                   ELSE {route_}
        add == IF available # {} /\ n < 15
               THEN {ListInsert(route_, pos, new_poi) :
                        pos \in 0..n, new_poi \in available}
               ELSE {route_}
        remove == IF n > 3
                  THEN {ListPop(route_, remove_idx) : remove_idx \in 0..(n - 1)}
                  ELSE {route_}
    IN  IF n < 2
        THEN {route_} \cup {Append(route_, x) : x \in available}
        ELSE {route_} \cup swap \cup insert \cup shuffle \cup add \cup remove

(***************************************************************************)
(* weight_optimizer.py and models/feedback.py: the learned_weights table   *)
(* and the sessions that run WeightOptimizer.save_weights.  rows holds the *)
(* committed rows in id order.  The engine is the one database_url names:  *)
(* "sqlite" (the default; one writer at a time holds the database lock)    *)
(* or "postgresql" (READ COMMITTED: a statement sees the rows committed    *)
(* before it began and waits for the row locks of other transactions).     *)
(***************************************************************************)
Savers == {"w1", "w2"}
MaxSaves == 2

\* The weights dicts calculate_optimal_weights hands to save_weights, in
\* hundredths: normalised coefficients, none the static default.
LearnedChoices ==
    {[distance_weight |-> 40, popularity_weight |-> 30,
      urgency_weight |-> 10, rating_weight |-> 20],
     [distance_weight |-> 25, popularity_weight |-> 25,
      urgency_weight |-> 25, rating_weight |-> 25]}

LearnedWeights(id, w, is_active) ==
    [id |-> id, distance_weight |-> w.distance_weight,
     popularity_weight |-> w.popularity_weight,
     urgency_weight |-> w.urgency_weight,
     rating_weight |-> w.rating_weight, is_active |-> is_active]

IdleSaver ==
    [pc |-> "idle",
     weights |-> [distance_weight |-> 0, popularity_weight |-> 0,
                  urgency_weight |-> 0, rating_weight |-> 0],
     matched |-> {}]

NoDb == [engine |-> "sqlite", rows |-> <<>>, lock |-> "none",
         session |-> [s \in Savers |-> IdleSaver], saves |-> 0]

\* The ids of the rows with is_active = True.
ActiveIds(rows) == {rows[k].id : k \in {j \in DOMAIN rows : rows[j].is_active}}

\* Query.update of line 146 applied at commit: is_active = False on the
\* rows the statement matched.
UpdateAll(rows, matched) ==
    [k \in DOMAIN rows |->
        IF rows[k].id \in matched THEN [rows[k] EXCEPT !.is_active = FALSE]
        ELSE rows[k]]

\* get_current_weights: the first active row, else the static defaults.
get_current_weights(rows) ==
    IF ActiveIds(rows) = {} THEN
        [distance_weight |-> WEIGHTS.distance_weight,
         popularity_weight |-> WEIGHTS.popularity_weight,
         urgency_weight |-> WEIGHTS.urgency_weight,
         rating_weight |-> WEIGHTS.rating_weight]
    ELSE LET r == rows[CHOOSE k \in DOMAIN rows :
                         /\ rows[k].is_active
                         /\ \A j \in DOMAIN rows : rows[j].is_active => k <= j]
         IN  [distance_weight |-> r.distance_weight,
              popularity_weight |-> r.popularity_weight,
              urgency_weight |-> r.urgency_weight,
              rating_weight |-> r.rating_weight]

\* The four heuristic weights of an OptimizationWeights object.
HeuristicWeights(w) ==
    [distance_weight |-> w.distance_weight,
     popularity_weight |-> w.popularity_weight,
     urgency_weight |-> w.urgency_weight,
     rating_weight |-> w.rating_weight]

(***************************************************************************)
(* chatbot/schemas.py and chatbot_service.py: the ExtractedParameters of   *)
(* one chat session.  Lists are sequences; an update is the new_params     *)
(* dict as a sequence of <<key, list>> pairs in dict order.                *)
(***************************************************************************)
MaxMerges == 3
MaxListLen == 2
Categories == {"museum", "park"}

ExtractedParameters ==
    [mandatory_categories |-> <<>>, avoid_categories |-> <<>>]

NoChat == [extracted_params |-> ExtractedParameters, new_params |-> <<>>,
           merges |-> 0]

\* A value of new_params: None, or a list of categories.
ParamNone == [null |-> TRUE, list |-> <<>>]
ParamList(l) == [null |-> FALSE, list |-> l]

\* list.remove(x): the list without the first occurrence of x.
RemoveFirst(s, x) ==
    LET first == CHOOSE k \in DOMAIN s :
                     s[k] = x /\ \A j \in 1..(k - 1) : s[j] # x
    IN  [k \in 1..(Len(s) - 1) |-> IF k < first THEN s[k] ELSE s[k + 1]]

\* A merge of one category that appends without touching the other list.
AddOnly(existing, key, cat) ==
    IF key = "mandatory_categories"
    THEN [existing EXCEPT !.mandatory_categories =
             IF cat \in Range(@) THEN @ ELSE Append(@, cat)]
    ELSE [existing EXCEPT !.avoid_categories =
             IF cat \in Range(@) THEN @ ELSE Append(@, cat)]

\* Body of the two `for cat in value` loops (lines 123-137): remove the
\* category from the opposite list, append it to the named list if absent.
AddCategory(existing, key, cat) ==
    IF key = "mandatory_categories"
    THEN LET e == IF cat \in Range(existing.avoid_categories)
                  THEN [existing EXCEPT !.avoid_categories = RemoveFirst(@, cat)]
                  ELSE existing
         IN  [e EXCEPT !.mandatory_categories =
                 IF cat \in Range(@) THEN @ ELSE Append(@, cat)]
    ELSE LET e == IF cat \in Range(existing.mandatory_categories)
                  THEN [existing EXCEPT !.mandatory_categories = RemoveFirst(@, cat)]
                  ELSE existing
         IN  [e EXCEPT !.avoid_categories =
                 IF cat \in Range(@) THEN @ ELSE Append(@, cat)]

RECURSIVE MergeList(_, _, _)
MergeList(existing, key, value) ==
    IF value = <<>> THEN existing
    ELSE MergeList(AddCategory(existing, key, Head(value)), key, Tail(value))

\* _merge_params: the items of new_params in dict order; a None value is
\* skipped.
RECURSIVE merge_params(_, _)
merge_params(existing, new_params) ==
    IF new_params = <<>> THEN existing
    ELSE LET key == Head(new_params)[1]
             value == Head(new_params)[2]
         IN  merge_params(IF value.null THEN existing
                          ELSE MergeList(existing, key, value.list),
                          Tail(new_params))

(***************************************************************************)
(* Evaluator runs: calculate_fitness, then get_route_details, of one       *)
(* route over the whole catalogue.                                         *)
(***************************************************************************)
EvalRequests ==
    {Request(st, md, mb, pace, avoid, mand, weather, "driving-car", loc,
             <<>>, prov) :
        st \in {540, 600}, md \in {60, 120, 360}, mb \in {20, 100},
        pace \in {"slow", "medium", "fast"},
        avoid \in {{}, {"restaurant"}}, mand \in {{}, {"beach"}},
        weather \in {NoWeather, Rain}, loc \in BOOLEAN,
        prov \in {"ors", "none"}}

\* The solver as the caller set it up: a matrix unless the provider is
\* "none", start-to-POI times when a start location was given.
SolverFor(P, C) ==
    LET s0 == TOPTWSolver(P, C)
        s1 == IF C.provider = "none" THEN s0
              ELSE set_distance_matrix(s0, PoiMatrix(P, C))
    IN  IF C.start_location /\ C.provider # "none"
        THEN set_start_to_poi_times(s1, StartRow(P, C))
        ELSE s1

InitEval ==
    /\ weights = WEIGHTS
    /\ pc = "eval"
    /\ req \in EvalRequests
    /\ pois = ToNodes(Catalog)
    /\ route \in SeqsOver(DOMAIN pois, 0, MaxRouteLen)
    /\ fit = NoFit
    /\ det = NoDet
    /\ aco = NoAco
    /\ resp = NoResp
    /\ log = <<>>
    /\ ga = NoGa
    /\ rs = NoRs
    /\ lib = NoLib
    /\ db = NoDb
    /\ chat = NoChat

EvalFitness ==
    /\ pc = "eval"
    /\ fit' = calculate_fitness(SolverFor(pois, req), route)
    /\ pc' = "scored"
    /\ UNCHANGED <<req, pois, route, det, aco, resp, log, ga, rs, weights, lib, db, chat>>

EvalDetails ==
    /\ pc = "scored"
    /\ det' = get_route_details(SolverFor(pois, req), route, req.start_location)
    /\ pc' = "scheduled"
    /\ UNCHANGED <<req, pois, route, fit, aco, resp, log, ga, rs, weights, lib, db, chat>>

NextEval == EvalFitness \/ EvalDetails

SpecEval == InitEval /\ [][NextEval]_vars

(***************************************************************************)
(* The evaluator called with a route or a matrix that breaks its contract: *)
(* indices outside [0, N), or a matrix smaller than the POI array.         *)
(* Python reads list[i] and ndarray[i] for -n <= i < n (a negative i       *)
(* counts from the end) and raises IndexError otherwise.                   *)
(***************************************************************************)
ShortLen == 2

PyOutOfRange(n, i) == i >= n \/ i < 0 - n

PyIndex(n, i) == IF i < 0 THEN i + n ELSE i

\* The positions the indices of r read in a container of n items.
Normalised(r, n) == [k \in DOMAIN r |-> PyIndex(n, r[k])]

MatrixLen(sv) ==
    IF sv.time_matrix = NoMatrix THEN 0 ELSE NumNodes(sv.time_matrix)

\* calculate_fitness raises IndexError: self.pois[poi_idx] (line 105), or
\* self.time_matrix[prev_idx][poi_idx] (line 116), which is read only
\* when prev_idx < len(self.time_matrix).
FitnessRaises(sv, r) ==
    \E i \in DOMAIN r :
        \/ PyOutOfRange(NumNodes(sv.pois), r[i])
        \/ /\ i > 1
           /\ sv.time_matrix # NoMatrix
           /\ r[i - 1] < MatrixLen(sv)
           /\ \/ PyOutOfRange(MatrixLen(sv), r[i - 1])
              \/ PyOutOfRange(MatrixLen(sv), r[i])

\* get_route_details raises IndexError: self.pois[...] (lines 372-400) or
\* self.time_matrix[prev_idx][poi_idx] (line 388), read whenever a matrix
\* is set.
DetailsRaises(sv, r) ==
    \E i \in DOMAIN r :
        \/ PyOutOfRange(NumNodes(sv.pois), r[i])
        \/ /\ i > 1
           /\ sv.time_matrix # NoMatrix
           /\ \/ PyOutOfRange(MatrixLen(sv), r[i - 1])
              \/ PyOutOfRange(MatrixLen(sv), r[i])

\* The solver of a contract run: provider "short" leaves a matrix over the
\* first ShortLen POIs only.
ContractSolver(P, C) ==
    IF C.provider = "short"
    THEN set_distance_matrix(TOPTWSolver(P, C),
             PoiMatrix([k \in 0..(ShortLen - 1) |-> P[k]], C))
    ELSE SolverFor(P, C)

ContractRequests ==
    {Request(540, md, 100, "medium", {}, {}, NoWeather, "driving-car", loc,
             <<>>, prov) :
        md \in {120, 360}, loc \in BOOLEAN, prov \in {"ors", "none", "short"}}

\* Routes of one or two indices.  With the short matrix the indices are
\* taken from [0, N]; otherwise from [-N-1, N] with at least one outside
\* [0, N).
ContractRoutes(N, prov) ==
    IF prov = "short"
    THEN UNION {[1..n -> 0..N] : n \in 1..2}
    ELSE {r \in UNION {[1..n -> (0 - N - 1)..N] : n \in 1..2} :
             \E k \in DOMAIN r : r[k] \notin 0..(N - 1)}

InitContract ==
    /\ weights = WEIGHTS
    /\ pc = "contract"
    /\ req \in ContractRequests
    /\ pois = ToNodes(Catalog)
    /\ route \in ContractRoutes(NumNodes(pois), req.provider)
    /\ fit = NoFit
    /\ det = NoDet
    /\ aco = NoAco
    /\ resp = NoResp
    /\ log = <<>>
    /\ ga = NoGa
    /\ rs = NoRs
    /\ lib = NoLib
    /\ db = NoDb
    /\ chat = NoChat

\* calculate_fitness(route): a score, or IndexError.
ContractFitness ==
    /\ pc = "contract"
    /\ LET sv == ContractSolver(pois, req) IN
       IF FitnessRaises(sv, route)
       THEN fit' = fit /\ log' = Append(log, "IndexError")
       ELSE /\ fit' = calculate_fitness(sv, Normalised(route, NumNodes(pois)))
            /\ log' = Append(log, "score")
    /\ pc' = "contract.scored"
    /\ UNCHANGED <<req, pois, route, det, aco, resp, ga, rs, weights, lib, db, chat>>

\* get_route_details(route, start_location): a timeline, or IndexError.
ContractDetails ==
    /\ pc = "contract.scored"
    /\ LET sv == ContractSolver(pois, req) IN
       IF DetailsRaises(sv, route)
       THEN det' = det /\ log' = Append(log, "IndexError")
       ELSE /\ det' = get_route_details(sv,
                          Normalised(route, NumNodes(pois)), req.start_location)
            /\ log' = Append(log, "timeline")
    /\ pc' = "contract.done"
    /\ UNCHANGED <<req, pois, route, fit, aco, resp, ga, rs, weights, lib, db, chat>>

NextContract == ContractFitness \/ ContractDetails

SpecContract == InitContract /\ [][NextContract]_vars

(***************************************************************************)
(* generate_route (api/optimizer.py) with AntColonyOptimizer.solve inlined *)
(* ant by ant.                                                             *)
(***************************************************************************)
OrchRequests ==
    {Request(st, md, mb, "medium", {}, {}, NoWeather, "driving-car", loc,
             sel, prov) :
        st \in {540, 600, 610}, md \in {60, 120, 360}, mb \in {10, 20, 100},
        loc \in BOOLEAN, prov \in {"ors", "geodesic"},
        sel \in {<<>>, <<101>>, <<102>>, <<103>>, <<104>>, <<101, 102>>,
                 <<104, 101>>, <<103, 102>>}}

\* poi_service.get_poi_by_id over the catalogue; None rows are dropped.
RECURSIVE RowsById(_)
RowsById(ids) ==
    IF ids = <<>> THEN <<>>
    ELSE LET hit == {k \in DOMAIN Catalog : Catalog[k].id = Head(ids)} IN
         (IF hit = {} THEN <<>> ELSE <<Catalog[CHOOSE k \in hit : TRUE]>>)
         \o RowsById(Tail(ids))

\* sorted(pois, key=popularity, reverse=True): stable insertion.
RECURSIVE SortByPopularity(_)
SortByPopularity(rows) ==
    IF rows = <<>> THEN <<>>
    ELSE LET rest == SortByPopularity(Tail(rows))
             h == Head(rows)
             n == Cardinality({k \in DOMAIN rest :
                                  rest[k].popularity > h.popularity})
         IN  SubSeq(rest, 1, n) \o <<h>> \o SubSeq(rest, n + 1, Len(rest))

\* The candidates before the availability filter: the pre-selected POIs,
\* or the rows rated >= 3.0 joined with the rows within 3 km of the start,
\* the 20 most popular first.
Candidates(r) ==
    IF r.selected_poi_ids # <<>> THEN RowsById(r.selected_poi_ids)
    ELSE LET rated == SelectSeq(Catalog, LAMBDA p : p.rating10 >= 30)
             near == SelectSeq(Catalog, LAMBDA p :
                        r.start_location /\ Abs(p.km) < 3 /\ p.rating10 < 30)
             sorted == SortByPopularity(rated \o near)
         IN  SubSeq(sorted, 1, Min(20, Len(sorted)))

\* The availability test of the orchestrator without the visit duration.
AvailableIgnoringVisit(p, r) ==
    is_poi_available(p.opening_hours, r.day_of_week, r.start_time, 0)

\* The availability test the orchestrator applies to a candidate row.
Available(p, r) ==
    is_poi_available(p.opening_hours, r.day_of_week, r.start_time,
                     p.visit_duration)

Failure(status, detail) == [NoResp EXCEPT !.status = status, !.detail = detail]

InitOrch ==
    /\ weights = WEIGHTS
    /\ pc = "request"
    /\ req \in OrchRequests
    /\ pois = <<>>
    /\ route = <<>>
    /\ fit = NoFit
    /\ det = NoDet
    /\ aco = NoAco
    /\ resp = NoResp
    /\ log = <<>>
    /\ ga = NoGa
    /\ rs = NoRs
    /\ lib = NoLib
    /\ db = NoDb
    /\ chat = NoChat

\* Lines 149-257: candidates, availability filter, POINode conversion.
FilterCandidates ==
    /\ pc = "request"
    /\ LET cands == Candidates(req)
           available == SelectSeq(cands, LAMBDA p : Available(p, req))
       IN  IF req.selected_poi_ids = <<>> /\ cands = <<>>
           THEN /\ resp' = Failure(404, "NoPOIsFound")
                /\ pc' = "done"
                /\ pois' = pois
           ELSE IF available = <<>>
           THEN /\ resp' = Failure(404, "NoAvailablePOIs")
                /\ pc' = "done"
                /\ pois' = pois
           ELSE /\ pois' = ToNodes(available)
                /\ pc' = "matrix"
                /\ resp' = resp
    /\ UNCHANGED <<req, route, fit, det, aco, log, ga, rs, weights, lib, db, chat>>

\* Lines 259-339: constraints, distance matrix, optimizer set-up.
RequestMatrix ==
    /\ pc = "matrix"
    /\ log' = Append(log, "get_distance_matrix")
    /\ aco' = AntColonyOptimizer(SolverFor(pois, req), req.start_location)
    /\ pc' = "solve"
    /\ UNCHANGED <<req, pois, route, fit, det, resp, ga, rs, weights, lib, db, chat>>

\* Line 342: aco.solve is entered.
SolveStart ==
    /\ pc = "solve"
    /\ log' = Append(log, "aco.solve")
    /\ pc' = "ant"
    /\ UNCHANGED <<req, pois, route, fit, det, aco, resp, ga, rs, weights, lib, db, chat>>

\* _construct_solution up to the while-loop: the seed.
AntSeed ==
    /\ pc = "ant"
    /\ \E seed \in SeedChoices(aco) :
          aco' = [aco EXCEPT
                    !.route = <<seed>>,
                    !.current_time = aco.solver.constraints.start_time
                        + aco.solver.pois[seed].visit_duration,
                    !.passes = 0,
                    !.continues = 0]
    /\ pc' = "walk"
    /\ UNCHANGED <<req, pois, route, fit, det, resp, log, ga, rs, weights, lib, db, chat>>

\* One pass of the while-loop of _construct_solution.  passes counts the
\* passes of the current ant, continues those that took the `continue` of
\* line 290 (both stop counting at MaxPasses).
AntStep ==
    /\ pc = "walk"
    /\ LET C == aco.solver.constraints
           cands == SelectCandidates(aco, aco.route, aco.current_time)
           counted == [aco EXCEPT !.passes = Min(@ + 1, MaxPasses)]
       IN  IF cands = {}
           THEN aco' = counted /\ pc' = "evaluate"
           ELSE \E next_idx \in cands :
                LET next_poi == aco.solver.pois[next_idx]
                    travel_time == MatrixTravel(aco.solver,
                                       aco.route[Len(aco.route)], next_idx)
                    arrival == aco.current_time + travel_time
                    opening_time == AcoWindow(aco, next_poi)[1]
                    departure == Max(arrival, opening_time)
                                 + next_poi.visit_duration
                IN  IF arrival < opening_time
                       /\ ConstructExcessiveWait(opening_time - arrival)
                    THEN /\ aco' = [counted EXCEPT
                                      !.continues = Min(@ + 1, MaxPasses)]
                         /\ pc' = pc
                    ELSE IF departure - C.start_time > C.max_duration
                    THEN aco' = counted /\ pc' = "evaluate"
                    ELSE /\ aco' = [counted EXCEPT
                                      !.route = Append(@, next_idx),
                                      !.current_time = departure]
                         /\ pc' = pc
    /\ UNCHANGED <<req, pois, route, fit, det, resp, log, ga, rs, weights, lib, db, chat>>

\* solve, lines 330-338: the ant's fitness and the global best.  seen
\* records every evaluated (route, fitness).
AntEvaluate ==
    /\ pc = "evaluate"
    /\ \E fitness \in {calculate_fitness(aco.solver, aco.route).fitness} :
       \E better \in {ImprovesBest(fitness, aco.best_fitness)} :
          aco' = [aco EXCEPT
                    !.solutions = Append(@, [route |-> aco.route,
                                             fitness |-> fitness]),
                    !.seen = Append(@, [route |-> aco.route,
                                        fitness |-> fitness]),
                    !.best_fitness = IF better THEN fitness ELSE @,
                    !.best_solution = IF better THEN aco.route ELSE @,
                    !.ant = @ + 1]
    /\ pc' = IF aco.ant + 1 = NumAnts THEN "update" ELSE "ant"
    /\ UNCHANGED <<req, pois, route, fit, det, resp, log, ga, rs, weights, lib, db, chat>>

RECURSIVE SumFitness(_)
SumFitness(solutions) ==
    IF solutions = <<>> THEN 0
    ELSE Head(solutions).fitness + SumFitness(Tail(solutions))

\* solve, lines 340-349: pheromone update and history at iteration end.
EndIteration ==
    /\ pc = "update"
    /\ aco' = [aco EXCEPT
                 !.pheromone_matrix = update_pheromones(@, aco.solutions),
                 !.fitness_history = Append(@,
                     [iteration |-> aco.iteration,
                      best_fitness |-> CHOOSE f \in
                          {aco.solutions[k].fitness : k \in DOMAIN aco.solutions} :
                          \A k \in DOMAIN aco.solutions :
                              aco.solutions[k].fitness <= f,
                      avg_fitness |-> SumFitness(aco.solutions)
                                      \div Len(aco.solutions)]),
                 !.iteration = @ + 1,
                 !.ant = 0,
                 !.solutions = <<>>]
    /\ pc' = IF aco.iteration + 1 = Iterations THEN "solved" ELSE "ant"
    /\ UNCHANGED <<req, pois, route, fit, det, resp, log, ga, rs, weights, lib, db, chat>>

\* Lines 342-348: solve returns (best_solution, best_fitness).
SolveReturn ==
    /\ pc = "solved"
    /\ route' = aco.best_solution
    /\ fit' = [NoFit EXCEPT !.fitness = aco.best_fitness]
    /\ pc' = IF aco.best_solution = <<>> THEN "fallback" ELSE "details"
    /\ UNCHANGED <<req, pois, det, aco, resp, log, ga, rs, weights, lib, db, chat>>

\* Lines 348-361 and 459-463: the name GeneticAlgorithm is not bound in
\* optimizer.py, so the fallback raises NameError, which the handler
\* turns into the generic 500.
GAFallback ==
    /\ pc = "fallback"
    /\ log' = Append(log, "NameError")
    /\ resp' = Failure(500, "FailedToGenerateRoute")
    /\ pc' = "done"
    /\ UNCHANGED <<req, pois, route, fit, det, aco, ga, rs, weights, lib, db, chat>>

\* Lines 367-454: final schedule and response.  The response route is
\* rebuilt from the timeline entries.
FinalSchedule ==
    /\ pc = "details"
    /\ log' = Append(log, "get_route_details")
    /\ det' = get_route_details(aco.solver, route, req.start_location)
    /\ resp' = [status |-> 200, detail |-> "ok",
                route |-> TimelineIds(det'.timeline),
                timeline |-> det'.timeline,
                total_duration |-> det'.total_duration,
                total_cost |-> det'.total_cost,
                fitness_score |-> fit.fitness,
                num_pois |-> Len(det'.timeline),
                end_time |-> det'.end_time]
    /\ pc' = "done"
    /\ UNCHANGED <<req, pois, route, fit, aco, ga, rs, weights, lib, db, chat>>

NextOrch ==
    \/ FilterCandidates
    \/ RequestMatrix
    \/ SolveStart
    \/ AntSeed
    \/ AntStep
    \/ AntEvaluate
    \/ EndIteration
    \/ SolveReturn
    \/ GAFallback
    \/ FinalSchedule

SpecOrch == InitOrch /\ [][NextOrch]_vars

(***************************************************************************)
(* generate_route while another thread of the process updates the          *)
(* process-wide weights: WEIGHTS is a mutable module-level object of       *)
(* optimization_weights.py.                                                *)
(***************************************************************************)
UpdatedWeights ==
    [distance_weight |-> 0, popularity_weight |-> 0,
     urgency_weight |-> 100, rating_weight |-> 0,
     travel_time_penalty |-> 10, cost_penalty |-> 50,
     constraint_violation |-> 200]

InitWeights ==
    /\ InitOrch
    /\ req.start_time = 540
    /\ req.max_budget = 100

\* The weights are updated once, while AntColonyOptimizer.solve runs.
UpdateWeights ==
    /\ pc \in {"ant", "walk", "evaluate", "update"}
    /\ weights = WEIGHTS
    /\ weights' = UpdatedWeights
    /\ UNCHANGED <<pc, req, pois, route, fit, det, aco, resp, log, ga, rs, lib, db, chat>>

NextWeights ==
    \/ FilterCandidates
    \/ RequestMatrix
    \/ SolveStart
    \/ AntSeed
    \/ AntStep
    \/ AntEvaluate
    \/ EndIteration
    \/ SolveReturn
    \/ GAFallback
    \/ FinalSchedule
    \/ UpdateWeights

SpecWeights == InitWeights /\ [][NextWeights]_vars

(***************************************************************************)
(* The two route constructors, each run on the whole catalogue:            *)
(* AntColonyOptimizer.solve (pc from "ant") or GeneticAlgorithm.evolve     *)
(* (pc from "ga.init").                                                    *)
(***************************************************************************)
ConstructRequests ==
    {Request(540, md, 100, "medium", {}, {}, NoWeather, "driving-car",
             md = 120, <<>>, "ors") : md \in {120, 360}}

InitConstruct ==
    /\ weights = WEIGHTS
    /\ pc \in {"ant", "ga.init"}
    /\ req \in ConstructRequests
    /\ pois = ToNodes(Catalog)
    /\ route = <<>>
    /\ fit = NoFit
    /\ det = NoDet
    /\ aco = AntColonyOptimizer(SolverFor(pois, req), req.start_location)
    /\ ga = GeneticAlgorithm(set_distance_matrix(TOPTWSolver(pois, req),
                                                 PoiMatrix(pois, req)))
    /\ resp = NoResp
    /\ log = <<>>
    /\ rs = NoRs
    /\ lib = NoLib
    /\ db = NoDb
    /\ chat = NoChat

\* initialize_population, then the emptiness test of evolve (lines
\* 269-274).  The greedy routes are appended after population_size random
\* routes, so the trim to population_size cuts them off.
GAInitialize ==
    /\ pc = "ga.init"
    /\ IF NumNodes(ga.solver.pois) = 0
       THEN ga' = ga /\ pc' = "ga.done"
       ELSE /\ \E randoms \in [1..PopulationSize ->
                                  RandomRoutes(NumNodes(ga.solver.pois))] :
                 ga' = [ga EXCEPT !.population =
                                      SubSeq(randoms, 1, PopulationSize)]
            /\ pc' = "ga.evaluate"
    /\ UNCHANGED <<req, pois, route, fit, det, aco, resp, log, rs, weights, lib, db, chat>>

\* evolve, lines 278-308: fitnesses, best so far, elites.
GAEvaluate ==
    /\ pc = "ga.evaluate"
    /\ \E fitnesses \in {Fitnesses(ga)} :
       \E max_fitness_idx \in {ArgMax(fitnesses)} :
       \E e \in EliteSeqs(fitnesses) :
          ga' = [ga EXCEPT
                   !.best_fitness = IF fitnesses[max_fitness_idx] > @
                                    THEN fitnesses[max_fitness_idx] ELSE @,
                   !.best_solution =
                       IF fitnesses[max_fitness_idx] > ga.best_fitness
                       THEN ga.population[max_fitness_idx] ELSE @,
                   !.fitnesses = fitnesses,
                   !.new_population = [k \in DOMAIN e |-> ga.population[e[k]]]]
    /\ pc' = IF elite_count < PopulationSize THEN "ga.select" ELSE "ga.next"
    /\ UNCHANGED <<req, pois, route, fit, det, aco, resp, log, rs, weights, lib, db, chat>>

\* evolve, lines 313-314: two tournament selections.  The fitness of an
\* individual is the one evolve computed for this population.
GASelect ==
    /\ pc = "ga.select"
    /\ \E winners \in {TournamentWinners(ga.population, ga.fitnesses)} :
       \E parent1 \in winners, parent2 \in winners :
          ga' = [ga EXCEPT !.parent1 = parent1, !.parent2 = parent2]
    /\ pc' = "ga.crossover"
    /\ UNCHANGED <<req, pois, route, fit, det, aco, resp, log, rs, weights, lib, db, chat>>

\* evolve, lines 317-320: crossover with probability crossover_rate, else
\* copies of the parents.
GACrossover ==
    /\ pc = "ga.crossover"
    /\ \/ /\ ga' = [ga EXCEPT !.child1 = ga.parent1, !.child2 = ga.parent2]
          /\ pc' = "ga.mutate"
       \/ \E o \in ordered_crossover(ga.parent1, ga.parent2) :
             IF o.hang
             THEN ga' = ga /\ pc' = "ga.hung"
             ELSE /\ ga' = [ga EXCEPT !.child1 = o.child1, !.child2 = o.child2]
                  /\ pc' = "ga.mutate"
    /\ UNCHANGED <<req, pois, route, fit, det, aco, resp, log, rs, weights, lib, db, chat>>

\* evolve, lines 323-331: both children are mutated; child1 is appended,
\* child2 only while there is room (otherwise its mutation is dropped).
GAMutate ==
    /\ pc = "ga.mutate"
    /\ \E m1 \in mutate(ga.child1, NumNodes(ga.solver.pois)) :
          LET np1 == Append(ga.new_population, m1)
          IN  IF Len(np1) < PopulationSize
              THEN \E m2 \in mutate(ga.child2, NumNodes(ga.solver.pois)) :
                      /\ ga' = [ga EXCEPT !.new_population = Append(np1, m2)]
                      /\ pc' = IF Len(np1) + 1 < PopulationSize
                               THEN "ga.select" ELSE "ga.next"
              ELSE /\ ga' = [ga EXCEPT !.new_population = np1]
                   /\ pc' = "ga.next"
    /\ UNCHANGED <<req, pois, route, fit, det, aco, resp, log, rs, weights, lib, db, chat>>

\* evolve, lines 331-340: the new generation replaces the population; the
\* loop goes on or evolve returns.
GANextGeneration ==
    /\ pc = "ga.next"
    /\ ga' = [ga EXCEPT
                !.population = SubSeq(ga.new_population, 1, PopulationSize),
                !.generation = @ + 1]
    /\ pc' = IF ga.generation + 1 = Generations THEN "ga.done" ELSE "ga.evaluate"
    /\ UNCHANGED <<req, pois, route, fit, det, aco, resp, log, rs, weights, lib, db, chat>>

NextConstruct ==
    \/ AntSeed
    \/ AntStep
    \/ AntEvaluate
    \/ EndIteration
    \/ GAInitialize
    \/ GAEvaluate
    \/ GASelect
    \/ GACrossover
    \/ GAMutate
    \/ GANextGeneration

SpecConstruct == InitConstruct /\ [][NextConstruct]_vars

(***************************************************************************)
(* The hours library called on its own: is_poi_available and               *)
(* calculate_urgency_weight for one (hours, day, minute, visit duration).  *)
(***************************************************************************)
HoursDicts ==
    {<<>>}
    \cup {<<<<"Monday", e>>>> :
             e \in {ENull, E24, EClosed, EHyphen(540, 630), EDash(600, 1020),
                    EHyphen(0, 1439), EDash(1320, 120)}}

InitHours ==
    /\ weights = WEIGHTS
    /\ pc = "hours"
    /\ lib \in {LibCall(h, day, t, d) :
                   h \in HoursDicts, day \in {"Monday", "Sunday"},
                   t \in {t \in 0..1439 : t % 5 = 0 \/ t % 7 = 0},
                   d \in {0, 30, 45, 120}}
    /\ req = NoRequest
    /\ pois = <<>>
    /\ route = <<>>
    /\ fit = NoFit
    /\ det = NoDet
    /\ aco = NoAco
    /\ resp = NoResp
    /\ log = <<>>
    /\ ga = NoGa
    /\ rs = NoRs
    /\ db = NoDb
    /\ chat = NoChat

HoursAnswer ==
    /\ pc = "hours"
    /\ lib' = [lib EXCEPT
                 !.visitable = is_poi_available(lib.hours, lib.day, lib.t, lib.d),
                 !.urgency = calculate_urgency_weight(lib.hours, lib.day,
                                                      lib.t, lib.d)]
    /\ pc' = "answered"
    /\ UNCHANGED <<req, pois, route, fit, det, aco, resp, log, ga, rs, weights,
                   db, chat>>

SpecHours == InitHours /\ [][HoursAnswer]_vars

(***************************************************************************)
(* The callers of get_distance_matrix in one process.                      *)
(***************************************************************************)
InitRoutes ==
    /\ weights = WEIGHTS
    /\ pc = "serving"
    /\ \E api_key_set \in BOOLEAN :
          rs = [NoRs EXCEPT !.services = <<RoutesService(api_key_set)>>]
    /\ req = NoRequest
    /\ pois = <<>>
    /\ route = <<>>
    /\ fit = NoFit
    /\ det = NoDet
    /\ aco = NoAco
    /\ resp = NoResp
    /\ log = <<>>
    /\ ga = NoGa
    /\ lib = NoLib
    /\ db = NoDb
    /\ chat = NoChat

CallsBegun ==
    Len(rs.done) + Cardinality({c \in Callers :
                                   rs.callers[c].pc \notin {"idle", "done"}})

\* The caller enters get_distance_matrix on service svc for key.
BeginCall(c, kind, svc, key, services) ==
    [rs EXCEPT
       !.services = services,
       !.callers[c] = [IdleCaller EXCEPT
                         !.pc = "check", !.kind = kind, !.svc = svc,
                         !.key = key,
                         !.cold = key \notin DOMAIN services[svc].matrix_cache,
                         !.seen = Len(rs.done)]]

\* api/routes.py, calculate_matrix (line 55): a request thread calls the
\* module-level service.
RsCalculateMatrix(c) ==
    /\ rs.callers[c].pc \in {"idle", "done"}
    /\ CallsBegun < MaxCalls
    /\ \E key \in CacheKeys :
          rs' = BeginCall(c, "calculate_matrix", 1, key, rs.services)
    /\ UNCHANGED <<pc, req, pois, route, fit, det, aco, resp, log, ga,
                   weights, lib, db, chat>>

\* api/optimizer.py, generate_route (lines 128, 299/320): the request
\* constructs its RoutesService and calls it.
RsGenerateRoute(c) ==
    /\ rs.callers[c].pc \in {"idle", "done"}
    /\ CallsBegun < MaxCalls
    /\ \E key \in CacheKeys :
          rs' = BeginCall(c, "generate_route", Len(rs.services) + 1, key,
                          Append(rs.services,
                                 RoutesService(rs.services[1].use_api)))
    /\ UNCHANGED <<pc, req, pois, route, fit, det, aco, resp, log, ga,
                   weights, lib, db, chat>>

\* A further call of the same request on the service it holds.
RsCallAgain(c) ==
    /\ rs.callers[c].pc = "done"
    /\ CallsBegun < MaxCalls
    /\ \E key \in CacheKeys :
          rs' = BeginCall(c, rs.callers[c].kind, rs.callers[c].svc, key,
                          rs.services)
    /\ UNCHANGED <<pc, req, pois, route, fit, det, aco, resp, log, ga,
                   weights, lib, db, chat>>

\* The call returns matrix: the record of the completed call.
ReturnMatrix(c, matrix) ==
    LET me == rs.callers[c] IN
    [rs EXCEPT
       !.callers[c] = [IdleCaller EXCEPT !.pc = "done", !.kind = me.kind,
                                         !.svc = me.svc],
       !.done = Append(@, [caller |-> c, kind |-> me.kind, svc |-> me.svc,
                           key |-> me.key, result |-> matrix,
                           invoked |-> me.invoked, stored |-> me.stored,
                           cached |-> rs.services[me.svc].matrix_cache[me.key],
                           cold |-> me.cold, seen |-> me.seen])]

\* get_distance_matrix, lines 50-54: the cache test; a hit returns.
RsCheckCache(c) ==
    /\ rs.callers[c].pc = "check"
    /\ LET me == rs.callers[c]
           sv == rs.services[me.svc]
       IN  IF me.key \in DOMAIN sv.matrix_cache
           THEN rs' = ReturnMatrix(c, sv.matrix_cache[me.key])
           ELSE rs' = [rs EXCEPT !.callers[c].pc = AfterMiss(sv)]
    /\ UNCHANGED <<pc, req, pois, route, fit, det, aco, resp, log, ga,
                   weights, lib, db, chat>>

\* A provider is called: it answers with a new matrix object or raises.
Invoke(c, provider, outcomes) ==
    /\ rs.callers[c].pc = provider
    /\ \E ok \in outcomes :
          rs' = [rs EXCEPT
                   !.callers[c].invoked =
                       Append(@, [provider |-> provider, ok |-> ok]),
                   !.callers[c].matrix =
                       IF ok THEN [id |-> rs.next_id, key |-> rs.callers[c].key,
                                   provider |-> provider]
                       ELSE @,
                   !.next_id = IF ok THEN @ + 1 ELSE @,
                   !.callers[c].pc = IF ok THEN "store"
                                     ELSE AfterFailure(provider)]
    /\ UNCHANGED <<pc, req, pois, route, fit, det, aco, resp, log, ga,
                   weights, lib, db, chat>>

\* lines 59-69: _get_ors_matrix.
RsOrs(c) == Invoke(c, "ors", BOOLEAN)

\* lines 75-83: _get_osrm_matrix.
RsOsrm(c) == Invoke(c, "osrm", BOOLEAN)

\* lines 86-87: _calculate_geodesic_matrix.
RsGeodesic(c) == Invoke(c, "geodesic", {TRUE})

\* lines 63, 77, 88: the cache entry is written.
RsStore(c) ==
    /\ rs.callers[c].pc = "store"
    /\ LET me == rs.callers[c] IN
       rs' = [rs EXCEPT
                !.services[me.svc].matrix_cache =
                    CachePut(@, me.key, me.matrix),
                !.callers[c].stored = me.matrix,
                !.callers[c].pc = "return"]
    /\ UNCHANGED <<pc, req, pois, route, fit, det, aco, resp, log, ga,
                   weights, lib, db, chat>>

\* lines 67, 81, 91: return matrix.
RsReturn(c) ==
    /\ rs.callers[c].pc = "return"
    /\ rs' = ReturnMatrix(c, rs.callers[c].matrix)
    /\ UNCHANGED <<pc, req, pois, route, fit, det, aco, resp, log, ga,
                   weights, lib, db, chat>>

NextRoutes ==
    \E c \in Callers :
        \/ RsCalculateMatrix(c)
        \/ RsGenerateRoute(c)
        \/ RsCallAgain(c)
        \/ RsCheckCache(c)
        \/ RsOrs(c)
        \/ RsOsrm(c)
        \/ RsGeodesic(c)
        \/ RsStore(c)
        \/ RsReturn(c)

SpecRoutes == InitRoutes /\ [][NextRoutes]_vars

(***************************************************************************)
(* The weight learner followed by an optimization: sessions run            *)
(* WeightOptimizer.save_weights (each in a transaction of its own), then   *)
(* generate_route runs.  A session is at "update" before line 146,         *)
(* "updating" while the UPDATE statement runs, "updated" after it,         *)
(* "saved" after commit returned and "failed" after the rollback.          *)
(***************************************************************************)
LearnRequests ==
    {r \in OrchRequests :
        /\ r.start_time = 540 /\ r.max_budget = 100
        /\ r.max_duration \in {120, 360}
        /\ r.provider = "geodesic" /\ ~r.start_location
        /\ r.selected_poi_ids = <<>>}

InitLearn ==
    /\ weights = WEIGHTS
    /\ pc = "request"
    /\ req \in LearnRequests
    /\ pois = <<>>
    /\ route = <<>>
    /\ fit = NoFit
    /\ det = NoDet
    /\ aco = NoAco
    /\ resp = NoResp
    /\ log = <<>>
    /\ ga = NoGa
    /\ rs = NoRs
    /\ lib = NoLib
    /\ db \in {[NoDb EXCEPT !.engine = e] : e \in {"sqlite", "postgresql"}}
    /\ chat = NoChat

\* save_weights is entered with a weights dict (run_optimization, line 178).
SaveBegin(s) ==
    /\ pc = "request"
    /\ db.session[s].pc \in {"idle", "saved", "failed"}
    /\ db.saves < MaxSaves
    /\ \E w \in LearnedChoices :
          db' = [db EXCEPT !.session[s] = [IdleSaver EXCEPT !.pc = "update",
                                                            !.weights = w],
                           !.saves = @ + 1]
    /\ UNCHANGED <<pc, req, pois, route, fit, det, aco, resp, log, ga, rs,
                   weights, lib, chat>>

\* Line 146: the UPDATE begins.  It matches the rows committed so far;
\* under sqlite it first takes the database's write lock.
SaveUpdateBegin(s) ==
    /\ pc = "request"
    /\ db.session[s].pc = "update"
    /\ db.engine = "sqlite" => db.lock = "none"
    /\ db' = [db EXCEPT
                !.session[s].pc = "updating",
                !.session[s].matched = {db.rows[k].id : k \in DOMAIN db.rows},
                !.lock = IF db.engine = "sqlite" THEN s ELSE @]
    /\ UNCHANGED <<pc, req, pois, route, fit, det, aco, resp, log, ga, rs,
                   weights, lib, chat>>

\* Line 146: the UPDATE ends, once no other open transaction holds a lock
\* on a matched row.
SaveUpdateEnd(s) ==
    /\ pc = "request"
    /\ db.session[s].pc = "updating"
    /\ \A t \in Savers \ {s} :
          db.session[t].pc = "updated" =>
              db.session[t].matched \cap db.session[s].matched = {}
    /\ db' = [db EXCEPT !.session[s].pc = "updated"]
    /\ UNCHANGED <<pc, req, pois, route, fit, det, aco, resp, log, ga, rs,
                   weights, lib, chat>>

\* Lines 149-164: the new active row is added and the transaction commits.
SaveCommit(s) ==
    /\ pc = "request"
    /\ db.session[s].pc = "updated"
    /\ db' = [db EXCEPT
                !.rows = Append(UpdateAll(db.rows, db.session[s].matched),
                                LearnedWeights(Len(db.rows) + 1,
                                               db.session[s].weights, TRUE)),
                !.session[s].pc = "saved",
                !.lock = IF @ = s THEN "none" ELSE @]
    /\ UNCHANGED <<pc, req, pois, route, fit, det, aco, resp, log, ga, rs,
                   weights, lib, chat>>

\* Lines 166-169: an exception (database is locked, a lost connection)
\* before the commit; the transaction is rolled back.
SaveRollback(s) ==
    /\ pc = "request"
    /\ db.session[s].pc \in {"update", "updating", "updated"}
    /\ db' = [db EXCEPT !.session[s].pc = "failed",
                        !.session[s].matched = {},
                        !.lock = IF @ = s THEN "none" ELSE @]
    /\ UNCHANGED <<pc, req, pois, route, fit, det, aco, resp, log, ga, rs,
                   weights, lib, chat>>

NextLearn ==
    \/ \E s \in Savers :
          \/ SaveBegin(s)
          \/ SaveUpdateBegin(s)
          \/ SaveUpdateEnd(s)
          \/ SaveCommit(s)
          \/ SaveRollback(s)
    \/ FilterCandidates
    \/ RequestMatrix
    \/ SolveStart
    \/ AntSeed
    \/ AntStep
    \/ AntEvaluate
    \/ EndIteration
    \/ SolveReturn
    \/ GAFallback
    \/ FinalSchedule

SpecLearn == InitLearn /\ [][NextLearn]_vars

(***************************************************************************)
(* AntColonyOptimizer.solve on its own, over POI arrays of one to four     *)
(* nodes.  Row 105 has different hours on different days: its node window  *)
(* comes from the Tuesday entry, its Monday hours end in the morning.      *)
(***************************************************************************)
AntCatalog ==
    Catalog \o
    <<DbPoi(105, 50, 30, "museum", 0, 40, {},
            <<<<"Tuesday", EHyphen(720, 1200)>>, <<"Monday", EDash(540, 600)>>>>,
            0),
      DbPoi(106, 40, 30, "park", 0, 35, {},
            <<<<"Monday", EHyphen(540, 620)>>>>, 15)>>

\* The rows (positions in AntCatalog) the POI arrays are made of.
AntPoiLists ==
    {<<1>>, <<2, 3>>, <<3, 2>>, <<1, 2, 3>>, <<3, 4>>, <<1, 2, 3, 4>>,
     <<2, 5>>, <<5, 2, 3>>, <<5, 6>>}

AntRequests ==
    {Request(st, md, 100, "medium", {}, {}, NoWeather, "driving-car", loc,
             <<>>, prov) :
        st \in {540, 600, 700}, md \in {120, 360}, loc \in BOOLEAN,
        prov \in {"ors", "geodesic"}}

InitAnt ==
    /\ weights = WEIGHTS
    /\ pc = "ant"
    /\ req \in AntRequests
    /\ pois \in {ToNodes([k \in DOMAIN l |-> AntCatalog[l[k]]]) :
                    l \in AntPoiLists}
    /\ route = <<>>
    /\ fit = NoFit
    /\ det = NoDet
    /\ aco = AntColonyOptimizer(SolverFor(pois, req), req.start_location)
    /\ resp = NoResp
    /\ log = <<>>
    /\ ga = NoGa
    /\ rs = NoRs
    /\ lib = NoLib
    /\ db = NoDb
    /\ chat = NoChat

NextAnt ==
    \/ AntSeed
    \/ AntStep
    \/ AntEvaluate
    \/ EndIteration

SpecAnt == InitAnt /\ [][NextAnt]_vars

(***************************************************************************)
(* A chat session (SpecChat): process_message merges the parameters the    *)
(* language model extracted from each message into the session's           *)
(* ExtractedParameters (chatbot_service.py, lines 79-81).                  *)
(***************************************************************************)
CategoryLists ==
    UNION {[1..n -> Categories] : n \in 0..MaxListLen}

ParamValues == {ParamNone} \cup {ParamList(l) : l \in CategoryLists}

\* The category part of the extracted_params dicts: no key, one key, or
\* both keys in either order.
NewParams ==
    {<<>>}
    \cup {<<<<k, v>>>> :
             k \in {"mandatory_categories", "avoid_categories"},
             v \in ParamValues}
    \cup {<<<<"mandatory_categories", m>>, <<"avoid_categories", a>>>> :
             m \in ParamValues, a \in ParamValues}
    \cup {<<<<"avoid_categories", a>>, <<"mandatory_categories", m>>>> :
             m \in ParamValues, a \in ParamValues}

InitChat ==
    /\ weights = WEIGHTS
    /\ pc = "chat"
    /\ req = NoRequest
    /\ pois = <<>>
    /\ route = <<>>
    /\ fit = NoFit
    /\ det = NoDet
    /\ aco = NoAco
    /\ resp = NoResp
    /\ log = <<>>
    /\ ga = NoGa
    /\ rs = NoRs
    /\ lib = NoLib
    /\ db = NoDb
    /\ chat = NoChat

\* process_message, lines 79-81: one message of the session.
ProcessMessage ==
    /\ pc = "chat"
    /\ chat.merges < MaxMerges
    /\ \E new_params \in NewParams :
          chat' = [extracted_params |->
                       merge_params(chat.extracted_params, new_params),
                   new_params |-> new_params,
                   merges |-> chat.merges + 1]
    /\ UNCHANGED <<pc, req, pois, route, fit, det, aco, resp, log, ga, rs,
                   weights, lib, db>>

NextChat == ProcessMessage

SpecChat == InitChat /\ [][NextChat]_vars

(***************************************************************************)
(* Properties of the evaluator (SpecEval).                                 *)
(***************************************************************************)
\* C1: calculate_fitness returns a value >= 0 for every route and every
\* constraint set, the empty route and penalty-dominated routes included.
C1_FitnessNonNegative == pc # "eval" => fit.fitness >= 0

\* A scored route whose penalties exceed its positive score.
C1_Witness ==
    /\ pc = "scored"
    /\ route # <<>>
    /\ fit.total_score > 0
    /\ fit.penalties > fit.total_score
    /\ fit.fitness = 0

\* C2: if fitness > 0 and neither over-duration penalty fired, the schedule
\* of the same route has total_duration <= max_duration.
C2_DurationBound ==
    (pc = "scheduled" /\ fit.fitness > 0
        /\ ~fit.over_duration /\ ~fit.over_pace)
    => det.total_duration <= req.max_duration

\* C3: the timeline of a duplicate-free route is a subsequence of the route:
\* ids come from the route in the route's order, none twice, and a POI
\* skipped for excessive wait has no entry.
C3_TimelineSubsequence ==
    pc = "scheduled" =>
        /\ IsSubseq(TimelineIds(det.timeline), RouteIds(pois, route))
        /\ NoDup(TimelineIds(det.timeline))
        /\ \A k \in DOMAIN det.skipped :
               pois[det.skipped[k]].id \notin Range(TimelineIds(det.timeline))

\* A schedule with two entries around a POI skipped for its wait.
C3_Witness ==
    /\ pc = "scheduled"
    /\ Len(route) = 3
    /\ Len(det.timeline) = 2
    /\ det.skipped = <<route[2]>>

\* C4: no timeline entry has wait_time > MAX_WAIT_TIME (30 minutes).
C4_WaitBounded ==
    pc = "scheduled" =>
        \A k \in DOMAIN det.timeline : det.timeline[k].wait_time <= MAX_WAIT_TIME

\* A schedule with an entry that waits and a POI left out for its wait.
C4_Witness ==
    /\ pc = "scheduled"
    /\ \E k \in DOMAIN det.timeline : det.timeline[k].wait_time > 0
    /\ det.skipped # <<>>

\* C5: the POIs of the timeline are exactly the POIs calculate_fitness
\* visits when walking the same route.
C5_ScheduleReproducesWalk ==
    pc = "scheduled" =>
        TimelineIds(det.timeline) = RouteIds(pois, fit.visits)

(***************************************************************************)
(* Properties of generate_route and of solve (SpecOrch).                   *)
(***************************************************************************)
\* C6: every successful generate_route response has total_cost <=
\* max_budget.
C6_BudgetHardCap ==
    resp.status = 200 => resp.total_cost <= req.max_budget

\* C7: in the timeline of a successful response no POI is scheduled to
\* arrive at or after its closing time (the later of the node's
\* closing_time and the closing parsed for the requested day).
C7_ArrivalBeforeClosing ==
    resp.status = 200 =>
        \A k \in DOMAIN resp.timeline :
            \A n \in DOMAIN pois :
                pois[n].id = resp.timeline[k].poi_id =>
                    TimeStringMinutes(resp.timeline[k].arrival_time)
                        < Max(pois[n].closing_time,
                              parse_opening_hours(pois[n].opening_hours,
                                                  req.day_of_week)[2])

\* C8: after every ant evaluation best_fitness is the maximum fitness over
\* the ant routes evaluated so far (0 with the empty route if none was
\* positive) and best_solution is the first route that attained it; the
\* best never decreases; solve returns that route with that fitness.
C8_AcoBest ==
    /\ [](LET seen == aco.seen
              best == CHOOSE f \in {0} \cup {seen[k].fitness : k \in DOMAIN seen} :
                         /\ f >= 0
                         /\ \A k \in DOMAIN seen : seen[k].fitness <= f
          IN  /\ aco.best_fitness = best
              /\ best = 0 => aco.best_solution = <<>>
              /\ best > 0 =>
                    \E k \in DOMAIN seen :
                        /\ seen[k].fitness = best
                        /\ seen[k].route = aco.best_solution
                        /\ \A j \in 1..(k - 1) : seen[j].fitness < best
              /\ pc \in {"fallback", "details"} =>
                    /\ route = aco.best_solution
                    /\ fit.fitness = best)
    /\ [][aco'.best_fitness >= aco.best_fitness]_vars

\* solve has returned after an ant improved on the first positive best
\* and a later ant scored below the best.
C8_Witness ==
    /\ pc = "details"
    /\ \E i, j, k \in DOMAIN aco.seen :
          /\ i < j /\ j < k
          /\ 0 < aco.seen[i].fitness
          /\ aco.seen[i].fitness < aco.seen[j].fitness
          /\ aco.seen[k].fitness < aco.seen[j].fitness
          /\ aco.best_fitness = aco.seen[j].fitness
          /\ route = aco.seen[j].route

\* C9: when solve returns an empty best route, generate_route runs the
\* GA and ends with the GA's route or with the dedicated NoFeasibleRoute
\* error, never another failure.
C9_GAFallback ==
    (pc = "done" /\ "aco.solve" \in Range(log) /\ aco.best_solution = <<>>)
    => /\ "ga.evolve" \in Range(log)
       /\ resp.status = 200 \/ resp.detail = "NoFeasibleRoute"

\* C10: the availability filter retains a candidate iff its hours for the
\* requested day are not Closed and start_time <= closing - visit_duration;
\* with nothing retained the answer is 404 NoAvailablePOIs, no distance
\* matrix is requested and ACO does not run; a candidate closed on the
\* requested day is in no returned route.
C10_AvailabilityFilter ==
    LET closed(p) == DictGet(p.opening_hours, req.day_of_week).kind = "closed"
        closing(p) == parse_opening_hours(p.opening_hours, req.day_of_week)[2]
        retained(p) == ~closed(p) /\ req.start_time <= closing(p) - p.visit_duration
        cands == Candidates(req)
        kept == SelectSeq(cands, retained)
    IN  pc # "request" =>
           /\ kept # <<>> => pois = ToNodes(kept)
           /\ (kept = <<>> /\ cands # <<>>) =>
                 /\ pc = "done"
                 /\ resp.status = 404 /\ resp.detail = "NoAvailablePOIs"
                 /\ log = <<>>
           /\ \A k \in DOMAIN cands :
                 closed(cands[k]) => cands[k].id \notin Range(resp.route)

\* A response whose candidates lost a POI closed that day and a POI that
\* closes before a visit would end, and kept another.
C10_Witness ==
    /\ resp.status = 200
    /\ \E k \in DOMAIN Candidates(req) :
          DictGet(Candidates(req)[k].opening_hours, req.day_of_week).kind = "closed"
    /\ \E k \in DOMAIN Candidates(req) :
          /\ is_poi_available(Candidates(req)[k].opening_hours,
                              req.day_of_week, req.start_time, 0)
          /\ \A n \in DOMAIN pois : pois[n].id # Candidates(req)[k].id
    /\ resp.route # <<>>

\* The only candidate is closed on the requested day: 404 before any
\* matrix request.
C10_WitnessNone ==
    /\ pc = "done"
    /\ resp.status = 404
    /\ Candidates(req) # <<>>

\* C18: scenario S1 - the single always-open candidate 101 (visit 60,
\* popularity 80, rating 4.0, free) at the start location, max_duration
\* 120, max_budget 10, start 09:00 on Monday - is answered with route
\* [101], num_pois 1, total_duration 60, end_time 10:00 and fitness > 0.
C18_ScenarioS1 ==
    (/\ pc = "done"
     /\ req.selected_poi_ids = <<101>>
     /\ req.start_location
     /\ req.start_time = 540
     /\ req.max_duration = 120
     /\ req.max_budget = 10)
    => (/\ resp.status = 200
        /\ resp.route = <<101>>
        /\ resp.num_pois = 1
        /\ resp.total_duration = 60
        /\ resp.end_time = <<10, 0>>
        /\ resp.fitness_score > 0)

\* C19: calculate_fitness counts the leg from the start to the first POI:
\* with start-to-POI times set, the total_time of a one-POI route whose
\* POI is visited holds at least that leg and the visit.
C19_StartLegCounted ==
    (/\ pc = "scored"
     /\ Len(route) = 1
     /\ fit.visits = route
     /\ SolverFor(pois, req).start_to_poi_times # NoTimes)
    => fit.total_time >= SolverFor(pois, req).start_to_poi_times[route[1]]
                         + pois[route[1]].visit_duration

(***************************************************************************)
(* Properties of the evaluator's contract (SpecContract).                  *)
(***************************************************************************)
\* C20: for a route with an index outside [0, N) (negative ones included),
\* or with a matrix that does not cover an index of the route, both
\* calculate_fitness and get_route_details fail with an error and return
\* no score and no timeline.
C20_ContractErrors ==
    (/\ pc = "contract.done"
     /\ \/ \E k \in DOMAIN route : route[k] \notin 0..(NumNodes(pois) - 1)
        \/ /\ ContractSolver(pois, req).time_matrix # NoMatrix
           /\ \E k \in DOMAIN route :
                 route[k] >= MatrixLen(ContractSolver(pois, req)))
    => log = <<"IndexError", "IndexError">>

(***************************************************************************)
(* Properties of the constructors (SpecConstruct).                         *)
(***************************************************************************)
\* C11: every route a constructor produces has no duplicate index and only
\* indices in [0, N): the route an ant builds and every evaluated ant
\* route; every GA individual after initialisation, selection, crossover
\* and mutation.
C11_RoutesWellFormed ==
    LET N == NumNodes(pois)
        ok(r) == NoDup(r) /\ \A k \in DOMAIN r : r[k] \in 0..(N - 1)
    IN  /\ ok(aco.route)
        /\ ok(aco.best_solution)
        /\ \A k \in DOMAIN aco.seen : ok(aco.seen[k].route)
        /\ \A k \in DOMAIN ga.population : ok(ga.population[k])
        /\ \A k \in DOMAIN ga.new_population : ok(ga.new_population[k])
        /\ ok(ga.parent1) /\ ok(ga.parent2)
        /\ ok(ga.child1) /\ ok(ga.child2)
        /\ ok(ga.best_solution)

\* evolve has returned a population holding a route that crossover of two
\* different parents and a mutation made.
C11_Witness ==
    /\ pc = "ga.done"
    /\ ga.generation = Generations
    /\ ga.parent1 # ga.parent2
    /\ ga.child1 \notin {ga.parent1, ga.parent2}
    /\ ga.population[elite_count + 1] # ga.child1
    /\ Range(ga.population[elite_count + 1]) # Range(ga.child1)

\* An ant has built a route over two POIs.
C11_WitnessAnt ==
    /\ pc = "evaluate"
    /\ Len(aco.route) = 2

(***************************************************************************)
(* Properties of the hours library (SpecHours).                            *)
(***************************************************************************)
\* C12: when the entry of the day parses as Closed, is_poi_available is
\* false and calculate_urgency_weight is 0, for every minute and duration.
C12_ClosedDay ==
    (pc = "answered" /\ parse_opening_hours(lib.hours, lib.day)[1] = None)
    => (~lib.visitable /\ lib.urgency = 0)

C14_CacheAcrossRequests ==
    \A i, j \in DOMAIN rs.done :
        (/\ i <= rs.done[j].seen
         /\ rs.done[i].kind = "generate_route"
         /\ rs.done[j].kind = "generate_route"
         /\ rs.done[i].key = rs.done[j].key)
        => (/\ rs.done[j].invoked = <<>>
            /\ SameValues(rs.done[j].result, rs.done[i].result))

\* C15: two calls on the same service with the same key, each begun before
\* the other returned and with no cache entry for the key: only one of
\* them invokes providers and both return the same matrix object.
C15_OneCallerPopulates ==
    \A i, j \in DOMAIN rs.done :
        (/\ i < j
         /\ rs.done[j].seen < i
         /\ rs.done[i].svc = rs.done[j].svc
         /\ rs.done[i].key = rs.done[j].key
         /\ rs.done[i].cold /\ rs.done[j].cold)
        => (/\ rs.done[i].invoked = <<>> \/ rs.done[j].invoked = <<>>
            /\ rs.done[i].result = rs.done[j].result)

C17_WeightSnapshot ==
    pc = "walk" =>
        /\ calculate_fitness(aco.solver, aco.route)
             = calculate_fitness(
                   [aco.solver EXCEPT !.alpha = WEIGHTS.travel_time_penalty,
                                      !.beta = WEIGHTS.cost_penalty,
                                      !.gamma = WEIGHTS.constraint_violation],
                   aco.route)
        /\ \A next_idx \in DOMAIN aco.solver.pois :
              calculate_heuristic(aco, aco.route[Len(aco.route)], next_idx,
                                  aco.current_time)
                = HeuristicWith(WEIGHTS, aco, aco.route[Len(aco.route)],
                                next_idx, aco.current_time)

(***************************************************************************)
(* Properties of the POINode conversion (SpecOrch).                        *)
(***************************************************************************)
\* C21: every POINode handed to the optimizer carries the window of the
\* requested day, (opening_time, closing_time) = parse_opening_hours(
\* opening_hours, day_of_week), and opening_time <= closing_time.
C21_NodeWindowOfDay ==
    \A k \in DOMAIN pois :
       /\ <<pois[k].opening_time, pois[k].closing_time>>
             = parse_opening_hours(pois[k].opening_hours, req.day_of_week)
       /\ pois[k].opening_time <= pois[k].closing_time

(***************************************************************************)
(* Properties of the schedule summary (SpecEval).                          *)
(***************************************************************************)
\* C22: the summary of get_route_details agrees with its timeline: num_pois
\* is the number of timeline entries, end_time is the departure time of the
\* last entry, and total_duration is that departure minus start_time.
C22_SummaryMatchesTimeline ==
    (pc = "scheduled" /\ ~det.empty) =>
        /\ det.num_pois = Len(det.timeline)
        /\ det.timeline # <<>> =>
              LET last == det.timeline[Len(det.timeline)] IN
              /\ det.end_time = last.departure_time
              /\ det.total_duration
                    = TimeStringMinutes(last.departure_time) - req.start_time

(***************************************************************************)
(* Properties of the weight learner (SpecLearn).                           *)
(***************************************************************************)
\* C23: once a LearnedWeights row is saved as active, an optimization
\* started afterwards uses the learned distance, popularity, urgency and
\* rating weights in the ACO heuristic, not the static defaults.
C23_LearnedWeightsUsed ==
    (pc \in {"ant", "walk", "evaluate", "update"}
        /\ ActiveIds(db.rows) # {}) =>
       /\ HeuristicWeights(weights) = get_current_weights(db.rows)
       /\ HeuristicWeights(weights) # HeuristicWeights(WEIGHTS)

\* C29: at most one LearnedWeights row is active at any time; once a save
\* has committed exactly one row is active, the most recently saved one,
\* whatever the interleaving of the sessions; a failed save leaves the
\* active row as it was.
C29_OneActiveRow ==
    /\ Cardinality(ActiveIds(db.rows)) <= 1
    /\ db.rows # <<>> => ActiveIds(db.rows) = {db.rows[Len(db.rows)].id}

(***************************************************************************)
(* Properties of the crossover (SpecConstruct).                            *)
(***************************************************************************)
\* C24: for two duplicate-free parents of length >= 2, of any lengths and
\* over any POI indices, ordered_crossover terminates and returns two
\* children of length min(|p1|, |p2|) whose positions [i, j) hold the first
\* parent's genes and whose other positions hold genes of the second parent.
C24_CrossoverTerminates ==
    /\ pc # "ga.hung"
    /\ (pc = "ga.crossover" /\ Len(ga.parent1) >= 2 /\ Len(ga.parent2) >= 2
           /\ NoDup(ga.parent1) /\ NoDup(ga.parent2)) =>
          \A o \in ordered_crossover(ga.parent1, ga.parent2) :
             /\ ~o.hang
             /\ Len(o.child1) = Min(Len(ga.parent1), Len(ga.parent2))
             /\ Len(o.child2) = Min(Len(ga.parent1), Len(ga.parent2))
             /\ \E i \in DOMAIN o.child1, j \in DOMAIN o.child1 :
                   /\ i <= j
                   /\ \A k \in i..j : /\ o.child1[k] = ga.parent1[k]
                                      /\ o.child2[k] = ga.parent2[k]
                   /\ \A k \in DOMAIN o.child1 \ (i..j) :
                         /\ o.child1[k] \in Range(ga.parent2)
                         /\ o.child2[k] \in Range(ga.parent1)

(***************************************************************************)
(* Properties of the ant's construction (SpecAnt).                         *)
(***************************************************************************)
\* C25 as stated: _construct_solution terminates, every pass of its
\* while-loop appends an unvisited POI or breaks, the `continue` for an
\* excessive wait is never taken, and the loop runs at most N - 1 times.
C25_LoopBoundOriginal ==
    /\ aco.continues = 0
    /\ aco.passes <= NumNodes(pois) - 1

\* C25 amended: the `continue` is never taken and every pass appends an
\* unvisited POI or breaks, so the loop makes at most N - 1 appending
\* passes and one breaking pass: at most N passes.
C25_LoopBound ==
    /\ aco.continues = 0
    /\ aco.passes <= NumNodes(pois)
    /\ pc = "walk" => /\ aco.passes = Len(aco.route) - 1
                      /\ NoDup(aco.route)
    /\ pc = "evaluate" => aco.passes = Len(aco.route)
    /\ pc = "walk" =>
          \A next_idx \in SelectCandidates(aco, aco.route, aco.current_time) :
             LET arrival == aco.current_time
                     + MatrixTravel(aco.solver, aco.route[Len(aco.route)],
                                    next_idx)
                 opening_time == AcoWindow(aco, aco.solver.pois[next_idx])[1]
             IN  ~(arrival < opening_time
                   /\ opening_time - arrival > ACO_MAX_WAIT_TIME)

\* An ant whose loop ran the N passes the bound allows, over at least three
\* POIs: N - 1 appends, then the pass that finds no candidate and breaks.
C25_Witness ==
    /\ pc = "evaluate"
    /\ NumNodes(pois) >= 3
    /\ Len(aco.route) = NumNodes(pois)
    /\ aco.passes = NumNodes(pois)

\* C26: the ant and the evaluator agree on every route the ant builds:
\* calculate_fitness visits every POI of the route (none is skipped for an
\* excessive wait, a missed or too short window, or zero urgency) and its
\* clock after the route equals the clock the ant tracked.
C26_AntAgreesWithEvaluator ==
    pc = "evaluate" =>
        LET w == FitnessWalk(aco.solver, aco.route, 1, FitnessStart(aco.solver))
        IN  /\ w.visits = aco.route
            /\ w.current_time = aco.current_time


\* C27: the seed of each ant: among the POIs with positive urgency at
\* start_time it is one maximising urgency x proximity to the start
\* location; when no POI has positive urgency it is the POI closest to the
\* start among all POIs.
C27_SeedSelection ==
    (pc \in {"walk", "evaluate"} /\ aco.start_location) =>
        LET P == aco.solver.pois
            seed == aco.route[1]
            urgent == {k \in DOMAIN P : SeedUrgency(aco, k) > 0}
        IN  IF urgent # {}
            THEN /\ seed \in urgent
                 /\ \A j \in urgent : ~SeedAbove(aco, j, seed)
            ELSE \A j \in DOMAIN P : Abs(P[seed].km) <= Abs(P[j].km)


\* The pairs of consecutive nodes of the routes with fitness > 0.
DepositPairs(solutions) ==
    UNION {{<<solutions[k].route[i], solutions[k].route[i + 1]>> :
               i \in 1..(Len(solutions[k].route) - 1)} :
           k \in {j \in DOMAIN solutions : solutions[j].fitness > 0}}

\* C28: the pheromone matrix is N x N, symmetric and strictly positive at
\* every moment, and an update changes, beyond the evaporation, only the
\* entries of consecutive pairs of routes with fitness > 0 and their
\* mirror entries.
C28_PheromoneInvariant ==
    /\ [](LET tau == aco.pheromone_matrix
               N == DOMAIN aco.solver.pois
           IN  /\ DOMAIN tau = N
               /\ \A u \in N :
                     /\ DOMAIN tau[u] = N
                     /\ \A v \in N : tau[u][v] = tau[v][u] /\ tau[u][v] > 0)
    /\ [][pc = "update" =>
            LET tau == aco.pheromone_matrix
                pairs == DepositPairs(aco.solutions)
            IN  \A u \in DOMAIN tau : \A v \in DOMAIN tau :
                   aco'.pheromone_matrix[u][v] # (tau[u][v] * 9) \div 10
                       => (<<u, v>> \in pairs \/ <<v, u>> \in pairs)]_vars

\* An update has deposited on one pair and only evaporated another.
C28_Witness ==
    /\ aco.iteration >= 1
    /\ \E u \in DOMAIN aco.pheromone_matrix :
       \E v \in DOMAIN aco.pheromone_matrix :
          /\ u # v
          /\ aco.pheromone_matrix[u][v] > 100
    /\ \E u \in DOMAIN aco.pheromone_matrix :
       \E v \in DOMAIN aco.pheromone_matrix :
          /\ u # v
          /\ aco.pheromone_matrix[u][v] < 100
    /\ \E k \in DOMAIN aco.seen : aco.seen[k].fitness <= 0


(***************************************************************************)
(* Properties of the category merge (SpecChat).                            *)
(***************************************************************************)
\* The categories the latest update names under a key (none for a None
\* value or a missing key).
NamedUnder(key) ==
    UNION {Range(chat.new_params[k][2].list) :
              k \in {j \in DOMAIN chat.new_params :
                        chat.new_params[j][1] = key}}

\* The position of a key in the latest update.
KeyPosition(key) ==
    CHOOSE k \in DOMAIN chat.new_params : chat.new_params[k][1] = key

NoDuplicates(s) == \A i \in DOMAIN s : \A j \in DOMAIN s : s[i] = s[j] => i = j

CategoriesWellFormed ==
    LET e == chat.extracted_params
    IN  /\ Range(e.mandatory_categories) \cap Range(e.avoid_categories) = {}
        /\ NoDuplicates(e.mandatory_categories)
        /\ NoDuplicates(e.avoid_categories)

\* The statement with "named in the latest update's avoid list => in avoid
\* and not in mandatory, and vice versa" for every named category.
C30_LatestUpdateWinsOriginal ==
    LET e == chat.extracted_params
    IN  /\ CategoriesWellFormed
        /\ \A cat \in NamedUnder("avoid_categories") :
              /\ cat \in Range(e.avoid_categories)
              /\ cat \notin Range(e.mandatory_categories)
        /\ \A cat \in NamedUnder("mandatory_categories") :
              /\ cat \in Range(e.mandatory_categories)
              /\ cat \notin Range(e.avoid_categories)

\* C30: after any sequence of merges from an empty ExtractedParameters the
\* two category lists are disjoint and duplicate-free; a category the
\* latest update names in one list only is in that list and not in the
\* other, and a category it names in both lists is in the list whose key
\* comes later in the update, and not in the other.
C30_LatestUpdateWins ==
    LET e == chat.extracted_params
        A == NamedUnder("avoid_categories")
        M == NamedUnder("mandatory_categories")
        avoid_last == KeyPosition("avoid_categories")
                          > KeyPosition("mandatory_categories")
    IN  /\ CategoriesWellFormed
        /\ \A cat \in A \ M :
              /\ cat \in Range(e.avoid_categories)
              /\ cat \notin Range(e.mandatory_categories)
        /\ \A cat \in M \ A :
              /\ cat \in Range(e.mandatory_categories)
              /\ cat \notin Range(e.avoid_categories)
        /\ \A cat \in A \cap M :
              IF avoid_last
              THEN /\ cat \in Range(e.avoid_categories)
                   /\ cat \notin Range(e.mandatory_categories)
              ELSE /\ cat \in Range(e.mandatory_categories)
                   /\ cat \notin Range(e.avoid_categories)

\* A later message moved a category to the other list, and its update
\* names one category under both keys.
C30_Witness ==
    /\ chat.merges >= 2
    /\ NamedUnder("avoid_categories") \cap NamedUnder("mandatory_categories") # {}
    /\ chat.extracted_params.mandatory_categories # <<>>
    /\ chat.extracted_params.avoid_categories # <<>>

====
